---- MODULE Spec2Model ----
(***************************************************************************)
(* A state-machine model of the asynchronous VHD driver                    *)
(* (drivers/block-vhd.c): the request router, the bitmap cache, the BAT    *)
(* and the write-transaction engine, together with the image on disk and   *)
(* the asynchronous I/O that is in flight.                                 *)
(*                                                                         *)
(* The driver state (struct vhd_state) is carried as one record s by the   *)
(* operators that model the C functions; each operator returns the state   *)
(* the function leaves behind.  A failed ASSERT or a NULL dereference stops*)
(* the process: s.crashed names it and every later operator is the         *)
(* identity.                                                               *)
(*                                                                         *)
(* Scaling.  Sectors per block, table size, cache size and pool size are   *)
(* scaled down; bit numbers stay below 31, where set_bit's (1 << nr) is    *)
(* defined.  A write reaches the image at the latest when its completion   *)
(* event is delivered; the model commits it to the image at that event.    *)
(***************************************************************************)
EXTENDS Integers, Sequences, FiniteSets, TLC

(* ------------------------------------------------------------------ *)
(* Bounds of the model                                                  *)
(* ------------------------------------------------------------------ *)
MaxOps == 2         \* host calls of vhd_queue_read / vhd_queue_write
MaxFail == 1        \* completions that report an I/O error
MaxLen == 2         \* longest request, in sectors
MaxWrites == 3      \* host calls of vhd_queue_write in SpecAlloc
HostBlocks == 2     \* blocks the host addresses in Spec and SpecAlloc
MaxCacheOps == 4    \* host calls in SpecCache

(* ------------------------------------------------------------------ *)
(* Program constants                                                    *)
(* ------------------------------------------------------------------ *)
VHD_CACHE_SIZE == 3
VHD_REQS_DATA == 3

VHD_OP_BAT_WRITE == 0
VHD_OP_DATA_READ == 1
VHD_OP_DATA_WRITE == 2
VHD_OP_BITMAP_READ == 3
VHD_OP_BITMAP_WRITE == 4
VHD_OP_ZERO_BM_WRITE == 5

VHD_BM_BAT_LOCKED == 0
VHD_BM_BAT_CLEAR == 1
VHD_BM_BIT_CLEAR == 2
VHD_BM_BIT_SET == 3
VHD_BM_NOT_CACHED == 4
VHD_BM_READ_PENDING == 5

VHD_FLAG_BAT_LOCKED == 1
VHD_FLAG_BAT_WRITE_STARTED == 2

VHD_FLAG_BM_WRITE_PENDING == 2
VHD_FLAG_BM_READ_PENDING == 4
VHD_FLAG_BM_LOCKED == 8

VHD_FLAG_REQ_UPDATE_BAT == 1
VHD_FLAG_REQ_UPDATE_BITMAP == 2
VHD_FLAG_REQ_QUEUED == 4
VHD_FLAG_REQ_FINISHED == 8

VHD_FLAG_TX_LIVE == 1
VHD_FLAG_TX_UPDATE_BAT == 2

HD_TYPE_FIXED == "HD_TYPE_FIXED"
HD_TYPE_DYNAMIC == "HD_TYPE_DYNAMIC"
HD_TYPE_DIFF == "HD_TYPE_DIFF"

EINVAL == 22
EBUSY == 16
EAGAIN == 11
ENOMEM == 12
EIO == 5
BLK_NOT_ALLOCATED == 99
\* the all-ones table entry; 2^31 - 1 stands for 0xFFFFFFFF, above every
\* sector number the model reaches
DD_BLK_UNUSED == 2147483647

NULL == 0

(* ------------------------------------------------------------------ *)
(* The image: geometry read at open                                     *)
(* ------------------------------------------------------------------ *)
VHD_SECTOR_SIZE == 512
spb == 8                      \* s->spb, sectors per block
spp == 8                      \* s->spp, sectors per page
max_bat_size == 4             \* s->hdr.max_bat_size
table_offset == 1536          \* s->hdr.table_offset, in bytes

secs_round_up(bytes) == (bytes + (VHD_SECTOR_SIZE - 1)) \div VHD_SECTOR_SIZE
bm_secs == secs_round_up(spb \div 8)

Blocks == 0 .. (max_bat_size - 1)

\* the value vhd_read_bat leaves in next_db for a table with no entry
\* at or beyond the end of the table
FirstDb ==
    LET n == (table_offset \div VHD_SECTOR_SIZE)
             + secs_round_up(4 * max_bat_size)
    IN  IF (n + bm_secs) % spp # 0
        THEN n + (spp - ((n + bm_secs) % spp))
        ELSE n

\* next_db moved on by the size of a block and no more
NextDbAfter_unaligned(db) == db + spb + bm_secs

\* finish_bat_write: next_db after one more block has been placed at db
NextDbAfter(db) ==
    LET n == db + spb + bm_secs
    IN  IF (n + bm_secs) % spp # 0
        THEN n + (spp - ((n + bm_secs) % spp))
        ELSE n

(* ------------------------------------------------------------------ *)
(* Requests: the data pool, the two BAT requests, one per bitmap        *)
(* ------------------------------------------------------------------ *)
DataReqs == 1 .. VHD_REQS_DATA         \* s->vreq_list
ZERO_REQ == VHD_REQS_DATA + 1          \* &s->bat.zero_req
BAT_REQ == VHD_REQS_DATA + 2           \* &s->bat.req
BmReq(i) == VHD_REQS_DATA + 2 + i      \* &s->bitmap_list[i].req
Descs == 1 .. VHD_CACHE_SIZE           \* s->bitmap_list
ReqIds == 1 .. (VHD_REQS_DATA + 2 + VHD_CACHE_SIZE)

\* memset(req, 0, sizeof(struct vhd_request)); io is the request's iocb
\* (io.data = NULL until aio_read/aio_write prepares it), gid is a ghost
\* naming the accepted span the request carries
\* kind and gid are ghosts: what the buffer holds and whose span it is; gen
\* of a request is a ghost too: the number of the transaction it joined
ZeroIocb ==
    [data |-> NULL, w |-> FALSE, off |-> 0, n |-> 0, kind |-> 0,
     gid |-> <<0, 0>>]
ZeroRequest ==
    [op |-> 0, lsec |-> 0, nr_secs |-> 0, flags |-> {}, error |-> 0,
     next |-> NULL, tx |-> NULL, cb |-> FALSE, id |-> 0, io |-> ZeroIocb,
     gen |-> 0]

EmptyList == [head |-> NULL, tail |-> NULL]
\* gen is a ghost: the number of this transaction in the order in which
\* transactions were initialised
ZeroTx ==
    [error |-> 0, closed |-> FALSE, started |-> 0, finished |-> 0,
     status |-> {}, requests |-> EmptyList, gen |-> 0]
ZeroBitmap ==
    [blk |-> 0, seqno |-> 0, status |-> {}, map |-> {}, shadow |-> {},
     tx |-> ZeroTx, queue |-> EmptyList, waiting |-> EmptyList]

VARIABLES
    ftr_type,      \* s->ftr.type
    bat,           \* s->bat.bat[], the table in memory
    past,          \* the word of memory that follows the table
    next_db,       \* s->next_db
    batst,         \* s->bat.status, pbw_blk, pbw_offset
    req,           \* every struct vhd_request, by ReqIds
    bm,            \* s->bitmap_list[], the bitmap descriptors
    bitmap,        \* s->bitmap[], the cache slots (a descriptor or NULL)
    bitmap_free,   \* s->bitmap_free[0 .. bm_free_count-1]
    bm_lru,        \* s->bm_lru
    vreq_free,     \* s->vreq_free[0 .. vreq_free_count-1]
    iocb_queue,    \* s->iocb_queue[0 .. iocb_queued-1]
    inflight,      \* control blocks the OS holds
    disk,          \* the image: table, bitmap bits <<bitmap sector, bit>>,
                   \* data <<sector, logical sector written there>>
    crashed,       \* "" or the fault that stopped the process
    hist           \* ghost: callbacks made, spans accepted, counters

vars == <<ftr_type, bat, past, next_db, batst, req, bm, bitmap, bitmap_free, bm_lru,
          vreq_free, iocb_queue, inflight, disk, crashed, hist>>

state ==
    [ftr_type |-> ftr_type, bat |-> bat, past |-> past, next_db |-> next_db,
     batst |-> batst,
     req |-> req, bm |-> bm, bitmap |-> bitmap, bitmap_free |-> bitmap_free,
     bm_lru |-> bm_lru, vreq_free |-> vreq_free, iocb_queue |-> iocb_queue,
     inflight |-> inflight, disk |-> disk, crashed |-> crashed, hist |-> hist,
     ret |-> 0]      \* ret: the value the function just modelled returned

Becomes(s) ==
    /\ ftr_type' = s.ftr_type
    /\ bat' = s.bat
    /\ past' = s.past
    /\ next_db' = s.next_db
    /\ batst' = s.batst
    /\ req' = s.req
    /\ bm' = s.bm
    /\ bitmap' = s.bitmap
    /\ bitmap_free' = s.bitmap_free
    /\ bm_lru' = s.bm_lru
    /\ vreq_free' = s.vreq_free
    /\ iocb_queue' = s.iocb_queue
    /\ inflight' = s.inflight
    /\ disk' = s.disk
    /\ crashed' = s.crashed
    /\ hist' = s.hist

(* ------------------------------------------------------------------ *)
(* Faults, flags, lists                                                 *)
(* ------------------------------------------------------------------ *)
\* a local of a function body: the value v under the name F gives it
With(v, F(_)) == F(v)

\* the process stops at the first fault
Crash(s, why) == IF s.crashed # "" THEN s ELSE [s EXCEPT !.crashed = why]

test_vhd_flag(word, flag) == flag \in word
set_vhd_flag(word, flag) == word \cup {flag}
clear_vhd_flag(word, flag) == word \ {flag}

\* bat_entry as an rvalue: the table is max_bat_size words, and an index
\* beyond it reads the memory that follows
bat_entry(s, blk) == IF blk \in DOMAIN s.bat THEN s.bat[blk] ELSE s.past

\* bat_entry as an lvalue
set_bat_entry(s, blk, v) ==
    IF blk \in DOMAIN s.bat THEN [s EXCEPT !.bat[blk] = v]
    ELSE [s EXCEPT !.past = v]

\* add_to_tail: the list header after appending e
add_to_tail(list, e) ==
    IF list.head = NULL THEN [head |-> e, tail |-> e]
    ELSE [list EXCEPT !.tail = e]

\* add_to_tail: the requests after appending e (list->tail->next = e)
add_to_tail_next(rq, list, e) ==
    IF list.head = NULL THEN rq
    ELSE [rq EXCEPT ![list.tail].next = e]

\* remove_from_req_list walks from the head; i is the element whose next
\* is e, NULL when the walk ends without finding e
RECURSIVE ListPred(_, _, _, _)
ListPred(rq, i, e, fuel) ==
    IF fuel = 0 THEN -1
    ELSE IF rq[i].next = NULL THEN NULL
    ELSE IF rq[i].next = e THEN i
    ELSE ListPred(rq, rq[i].next, e, fuel - 1)

\* remove_from_req_list on the transaction list of descriptor d; neither
\* e->next nor list->tail is touched
remove_from_req_list(s, d, e) ==
    LET list == s.bm[d].tx.requests IN
    IF list.head = NULL THEN Crash(s, "segv")
    ELSE IF list.head = e
    THEN [s EXCEPT !.bm[d].tx.requests.head = s.req[e].next]
    ELSE LET p == ListPred(s.req, list.head, e, Cardinality(ReqIds) + 1) IN
         IF p = -1 THEN Crash(s, "hang")
         ELSE IF p = NULL THEN s
         ELSE [s EXCEPT !.req[p].next = s.req[e].next]

init_tx(s, d) ==
    [s EXCEPT !.bm[d].tx = [ZeroTx EXCEPT !.gen = s.hist.txn + 1],
              !.hist.txn = @ + 1]

add_to_transaction(s, d, r) ==
    IF s.crashed # "" THEN s
    ELSE IF s.bm[d].tx.closed THEN Crash(s, "assert:add_to_transaction:closed")
    ELSE LET tx == s.bm[d].tx IN
         [s EXCEPT
            !.req = [add_to_tail_next(s.req, tx.requests, r)
                        EXCEPT ![r].tx = d, ![r].gen = tx.gen],
            !.bm[d].tx = [tx EXCEPT
                            !.started = tx.started + 1,
                            !.requests = add_to_tail(tx.requests, r),
                            !.status = set_vhd_flag(tx.status,
                                                    VHD_FLAG_TX_LIVE)]]

\* a transaction taken for complete as soon as one member has finished
transaction_completed_early(tx) == tx.finished > 0

transaction_completed(tx) == tx.started = tx.finished

(* ------------------------------------------------------------------ *)
(* BAT state                                                            *)
(* ------------------------------------------------------------------ *)
init_bat(s) ==
    [s EXCEPT !.batst.status = {}, !.batst.pbw_blk = 0,
              !.batst.pbw_offset = 0, !.req[BAT_REQ].tx = NULL]
\* a reservation that does not take the BAT lock
lock_bat_skipped(s) == s

lock_bat(s) ==
    [s EXCEPT !.batst.status = set_vhd_flag(s.batst.status,
                                            VHD_FLAG_BAT_LOCKED)]
unlock_bat(s) ==
    [s EXCEPT !.batst.status = clear_vhd_flag(s.batst.status,
                                              VHD_FLAG_BAT_LOCKED)]
bat_locked(s) == test_vhd_flag(s.batst.status, VHD_FLAG_BAT_LOCKED)

(* ------------------------------------------------------------------ *)
(* Bitmap cache                                                         *)
(* ------------------------------------------------------------------ *)
init_vhd_bitmap(s, d) ==
    init_tx([s EXCEPT !.bm[d] = ZeroBitmap, !.req[BmReq(d)] = ZeroRequest],
            d)

\* the first slot, in slot order, that holds a bitmap of this block
get_bitmap(s, block) ==
    LET hits == { i \in Descs :
                    s.bitmap[i] # NULL /\ s.bm[s.bitmap[i]].blk = block }
    IN  IF hits = {} THEN NULL
        ELSE s.bitmap[CHOOSE i \in hits : \A j \in hits : i <= j]

\* a bitmap that is not pinned when a request comes to depend on it
lock_bitmap_skipped(s, d) == s

lock_bitmap(s, d) ==
    [s EXCEPT !.bm[d].status = set_vhd_flag(s.bm[d].status,
                                            VHD_FLAG_BM_LOCKED)]
unlock_bitmap(s, d) ==
    [s EXCEPT !.bm[d].status = clear_vhd_flag(s.bm[d].status,
                                              VHD_FLAG_BM_LOCKED)]
bitmap_locked(b) == test_vhd_flag(b.status, VHD_FLAG_BM_LOCKED)
bitmap_valid(b) == ~test_vhd_flag(b.status, VHD_FLAG_BM_READ_PENDING)

\* a test that looks at the flags only, not at the three lists
bitmap_in_use_flags(b) ==
    \/ test_vhd_flag(b.status, VHD_FLAG_BM_READ_PENDING)
    \/ test_vhd_flag(b.status, VHD_FLAG_BM_WRITE_PENDING)
    \/ test_vhd_flag(b.tx.status, VHD_FLAG_TX_UPDATE_BAT)

bitmap_in_use(b) ==
    \/ test_vhd_flag(b.status, VHD_FLAG_BM_READ_PENDING)
    \/ test_vhd_flag(b.status, VHD_FLAG_BM_WRITE_PENDING)
    \/ test_vhd_flag(b.tx.status, VHD_FLAG_TX_UPDATE_BAT)
    \/ b.waiting.head # NULL
    \/ b.tx.requests.head # NULL
    \/ b.queue.head # NULL

\* a scan that never lowers the sequence number it compares with: the last
\* unlocked slot below bm_lru is chosen, whatever its sequence number
RECURSIVE LruScan_last(_, _, _, _)
LruScan_last(s, i, idx, seq) ==
    IF i > VHD_CACHE_SIZE THEN idx
    ELSE LET d == s.bitmap[i] IN
         IF d # NULL /\ s.bm[d].seqno < seq /\ ~bitmap_locked(s.bm[d])
         THEN LruScan_last(s, i + 1, i, seq)
         ELSE LruScan_last(s, i + 1, idx, seq)

\* the scan of remove_lru_bitmap over slots i .. VHD_CACHE_SIZE: the slot
\* chosen so far (0: none) and the lowest sequence number seen
RECURSIVE LruScan(_, _, _, _)
LruScan(s, i, idx, seq) ==
    IF i > VHD_CACHE_SIZE THEN idx
    ELSE LET d == s.bitmap[i] IN
         IF d # NULL /\ s.bm[d].seqno < seq /\ ~bitmap_locked(s.bm[d])
         THEN LruScan(s, i + 1, i, s.bm[d].seqno)
         ELSE LruScan(s, i + 1, idx, seq)

\* the descriptor remove_lru_bitmap returns, NULL when none qualifies
remove_lru_bitmap_ret(s) ==
    LET idx == LruScan(s, 1, 0, s.bm_lru) IN
    IF idx = 0 THEN NULL ELSE s.bitmap[idx]

remove_lru_bitmap(s) ==
    LET idx == LruScan(s, 1, 0, s.bm_lru) IN
    IF idx = 0 THEN s
    ELSE IF bitmap_in_use(s.bm[s.bitmap[idx]])
         THEN Crash([s EXCEPT !.bitmap[idx] = NULL],
                    "assert:remove_lru_bitmap:in_use")
         ELSE [s EXCEPT !.bitmap[idx] = NULL]

\* the descriptor alloc_vhd_bitmap hands out, NULL for -EBUSY
alloc_vhd_bitmap_ret(s) ==
    IF Len(s.bitmap_free) > 0 THEN s.bitmap_free[Len(s.bitmap_free)]
    ELSE remove_lru_bitmap_ret(s)

alloc_vhd_bitmap(s, blk) ==
    With(alloc_vhd_bitmap_ret(s), LAMBDA d :
    With(IF Len(s.bitmap_free) > 0
         THEN [s EXCEPT !.bitmap_free =
                           SubSeq(s.bitmap_free, 1, Len(s.bitmap_free) - 1)]
         ELSE remove_lru_bitmap(s), LAMBDA s1 :
    IF d = NULL \/ s1.crashed # "" THEN s1
    ELSE [init_vhd_bitmap(s1, d) EXCEPT !.bm[d].blk = blk]))

\* the bm_lru value at which the sequence numbers are halved (0xffffffff
\* in the source, 2^31 - 1 here: never reached within the bounds)
LRU_MAX == 2147483647

\* __bitmap_lru_seqno: the state after the call; the value returned is
\* its bm_lru
bitmap_lru_seqno(s) ==
    IF s.bm_lru = LRU_MAX
    THEN LET halved == [d \in Descs |->
                          IF \E i \in Descs : s.bitmap[i] = d
                          THEN [s.bm[d] EXCEPT !.seqno = s.bm[d].seqno \div 2]
                          ELSE s.bm[d]]
             cached == { halved[s.bitmap[i]].seqno :
                           i \in { j \in Descs : s.bitmap[j] # NULL } }
             top == IF cached = {} THEN 0
                    ELSE CHOOSE m \in cached : \A x \in cached : x <= m
         IN  [s EXCEPT !.bm = halved, !.bm_lru = top + 1]
    ELSE [s EXCEPT !.bm_lru = s.bm_lru + 1]

touch_bitmap(s, d) ==
    With(bitmap_lru_seqno(s), LAMBDA s1 :
    [s1 EXCEPT !.bm[d].seqno = s1.bm_lru])

\* an installation that always takes the first slot
install_bitmap_first(s, d) ==
    IF s.crashed # "" THEN s
    ELSE [touch_bitmap(s, d) EXCEPT !.bitmap[1] = d]

install_bitmap(s, d) ==
    LET free == { i \in Descs : s.bitmap[i] = NULL } IN
    IF s.crashed # "" THEN s
    ELSE IF free = {} THEN Crash(s, "assert:install_bitmap:full")
    ELSE LET i == CHOOSE k \in free : \A j \in free : k <= j IN
         [touch_bitmap(s, d) EXCEPT !.bitmap[i] = d]

free_vhd_bitmap(s, d) ==
    LET at == { i \in Descs : s.bitmap[i] = d } IN
    IF s.crashed # "" THEN s
    ELSE IF bitmap_locked(s.bm[d])
    THEN Crash(s, "assert:free_vhd_bitmap:locked")
    ELSE IF bitmap_in_use(s.bm[d])
    THEN Crash(s, "assert:free_vhd_bitmap:in_use")
    ELSE IF at = {} THEN Crash(s, "assert:free_vhd_bitmap:not_cached")
    ELSE LET i == CHOOSE k \in at : \A j \in at : k <= j IN
         [s EXCEPT !.bitmap[i] = NULL,
                   !.bitmap_free = Append(s.bitmap_free, d)]

test_bit(nr, map) == nr \in map
set_bits(map, sec, n) == map \cup { sec + i : i \in 0 .. (n - 1) }

(* ------------------------------------------------------------------ *)
(* Request pool and the pending-submission vector                       *)
(* ------------------------------------------------------------------ *)
VHD_REQS_TOTAL == VHD_REQS_DATA + VHD_CACHE_SIZE + 2

\* alloc_vhd_request: ret is the request, NULL when the pool is empty
alloc_vhd_request(s) ==
    LET n == Len(s.vreq_free) IN
    IF s.crashed # "" THEN s
    ELSE IF n = 0 THEN [s EXCEPT !.ret = NULL]
    ELSE LET r == s.vreq_free[n] IN
         IF s.req[r].nr_secs # 0
         THEN Crash(s, "assert:alloc_vhd_request:nr_secs")
         ELSE [s EXCEPT !.vreq_free = SubSeq(s.vreq_free, 1, n - 1),
                        !.ret = r]

\* free_vhd_request; vreq_free has VHD_REQS_DATA entries, one more push
\* writes past it
free_vhd_request(s, r) ==
    IF s.crashed # "" THEN s
    ELSE IF Len(s.vreq_free) >= VHD_REQS_DATA THEN Crash(s, "overflow")
    ELSE [s EXCEPT !.req[r] = ZeroRequest,
                   !.vreq_free = Append(s.vreq_free, r)]

\* io_prep_pread / io_prep_pwrite on the request's own iocb, then
\* s->iocb_queue[s->iocb_queued++] = io
aio_prep(s, r, w, offset) ==
    IF s.crashed # "" THEN s
    ELSE IF Len(s.iocb_queue) >= VHD_REQS_TOTAL THEN Crash(s, "overflow")
    ELSE [s EXCEPT
            !.req[r].io = [data |-> r, w |-> w, off |-> offset,
                           n |-> s.req[r].nr_secs * VHD_SECTOR_SIZE,
                           kind |-> s.req[r].op,
                           gid |-> <<s.req[r].id, s.req[r].lsec>>],
            !.iocb_queue = Append(s.iocb_queue, r)]

aio_read(s, r, offset) == aio_prep(s, r, FALSE, offset)
aio_write(s, r, offset) == aio_prep(s, r, TRUE, offset)

(* ------------------------------------------------------------------ *)
(* The caller's callback (ghost: what it was told, and what was on the  *)
(* image when it was told)                                              *)
(* ------------------------------------------------------------------ *)
\* whether sectors [sector, sector+n) are present in the image as it is
OnDisk(s, sector, n) ==
    IF s.ftr_type = HD_TYPE_FIXED
    THEN \A i \in 0 .. (n - 1) : <<sector + i, sector + i>> \in s.disk.data
    ELSE LET blk == sector \div spb
             sec == sector % spb
             off == IF blk \in Blocks THEN s.disk.bat[blk] ELSE DD_BLK_UNUSED
         IN  /\ off # DD_BLK_UNUSED
             /\ \A i \in 0 .. (n - 1) :
                  /\ <<off + bm_secs + sec + i, sector + i>> \in s.disk.data
                  /\ s.ftr_type = HD_TYPE_DIFF
                        => <<off, sec + i>> \in s.disk.bm

\* cb(dd, err, sec, n, id, private); the callback returns 0.  seq is the
\* number of callbacks made before this one, gen the transaction of the
\* request the callback is made for (0: the request is in no transaction)
\* and own that request's r->error; synced tells whether the bitmap of the
\* block is cached with map equal to shadow and no write pending
callback_tx(s, err, sector, n, id, op, flags, gen, own) ==
    IF s.crashed # "" THEN s
    ELSE [s EXCEPT !.hist.cbs = @ \cup
            {[id |-> id, err |-> err, sec |-> sector, n |-> n, op |-> op,
              flags |-> flags,
              io |-> <<id, sector>> \in s.hist.landed,
              ondisk |-> OnDisk(s, sector, n),
              batlocked |-> bat_locked(s),
              seq |-> Cardinality(s.hist.cbs), gen |-> gen, own |-> own,
              synced |->
                 LET d == get_bitmap(s, sector \div spb)
                 IN  /\ d # NULL
                     /\ s.bm[d].map = s.bm[d].shadow
                     /\ ~test_vhd_flag(s.bm[d].status,
                                       VHD_FLAG_BM_WRITE_PENDING)]}]

\* the callback made by the router, for a span that no request carries
callback(s, err, sector, n, id, op, flags) ==
    callback_tx(s, err, sector, n, id, op, flags, 0, err)

(* ------------------------------------------------------------------ *)
(* BAT updates                                                          *)
(* ------------------------------------------------------------------ *)
\* a reservation that always hands out the first data block position
reserve_new_block_first(s, blk) ==
    IF s.crashed # "" THEN s
    ELSE lock_bat([s EXCEPT !.batst.pbw_blk = blk,
                            !.batst.pbw_offset = FirstDb])

reserve_new_block(s, blk) ==
    IF s.crashed # "" THEN s
    ELSE IF bat_locked(s)
            \/ test_vhd_flag(s.batst.status, VHD_FLAG_BAT_WRITE_STARTED)
    THEN Crash(s, "assert:reserve_new_block")
    ELSE lock_bat([s EXCEPT !.batst.pbw_blk = blk,
                            !.batst.pbw_offset = s.next_db])

\* the table is one sector (max_bat_size <= 128): the buffer is the whole
\* table with the pending entry filled in
schedule_bat_write(s) ==
    IF s.crashed # "" THEN s
    ELSE IF ~bat_locked(s) THEN Crash(s, "assert:schedule_bat_write")
    ELSE LET blk == s.batst.pbw_blk IN
         With([s EXCEPT
                 !.batst.buf = IF blk \in DOMAIN s.bat
                               THEN [s.bat EXCEPT ![blk] = s.batst.pbw_offset]
                               ELSE s.bat,
                 !.req[BAT_REQ].nr_secs = 1,
                 !.req[BAT_REQ].op = VHD_OP_BAT_WRITE], LAMBDA s1 :
         With(aio_write(s1, BAT_REQ, table_offset + (blk - (blk % 128)) * 4),
              LAMBDA s2 :
         [s2 EXCEPT !.batst.status =
                       set_vhd_flag(s2.batst.status,
                                    VHD_FLAG_BAT_WRITE_STARTED)]))

schedule_zero_bm_write(s, d) ==
    IF s.crashed # "" THEN s
    ELSE With([s EXCEPT
                 !.req[ZERO_REQ].op = VHD_OP_ZERO_BM_WRITE,
                 !.req[ZERO_REQ].lsec = s.batst.pbw_blk * spb,
                 !.req[ZERO_REQ].nr_secs = bm_secs], LAMBDA s1 :
         aio_write(add_to_transaction(lock_bitmap(s1, d), d, ZERO_REQ),
                   ZERO_REQ, s.batst.pbw_offset * VHD_SECTOR_SIZE))

\* update_bat: ret is 0 or -EBUSY
update_bat(s, blk) ==
    IF s.crashed # "" THEN s
    ELSE IF bat_entry(s, blk) # DD_BLK_UNUSED
    THEN Crash(s, "assert:update_bat:allocated")
    ELSE IF bat_locked(s)
    THEN IF s.batst.pbw_blk # blk THEN Crash(s, "assert:update_bat:pbw_blk")
         ELSE [s EXCEPT !.ret = 0]
    ELSE With(get_bitmap(s, blk), LAMBDA cached :
         With(IF cached # NULL THEN cached ELSE alloc_vhd_bitmap_ret(s),
              LAMBDA d :
         IF d = NULL THEN [s EXCEPT !.ret = -EBUSY]
         ELSE
         With(IF cached # NULL THEN s
              ELSE install_bitmap(alloc_vhd_bitmap(s, blk), d), LAMBDA s1 :
         IF s1.crashed # "" THEN s1
         ELSE
         With(schedule_zero_bm_write(reserve_new_block(s1, blk), d),
              LAMBDA s2 :
         IF s2.crashed # "" THEN s2
         ELSE [s2 EXCEPT
                 !.bm[d].tx.status = set_vhd_flag(s2.bm[d].tx.status,
                                                  VHD_FLAG_TX_UPDATE_BAT),
                 !.ret = 0]))))

(* ------------------------------------------------------------------ *)
(* Bitmap-cache lookups of the router                                   *)
(* ------------------------------------------------------------------ *)
MIN(a, b) == IF a < b THEN a ELSE b

\* read_bitmap_cache: ret is the classification (or -EINVAL); a cached
\* bitmap of a differencing image is touched
\* a write to any unallocated block turned away while the BAT is locked
read_bitmap_cache_any_lock(s, sector, op) ==
    LET blk == sector \div spb
        sec == sector % spb
    IN
    IF s.crashed # "" THEN s
    ELSE IF s.ftr_type = HD_TYPE_FIXED THEN [s EXCEPT !.ret = VHD_BM_BIT_SET]
    ELSE IF blk > max_bat_size THEN [s EXCEPT !.ret = -EINVAL]
    ELSE IF bat_entry(s, blk) = DD_BLK_UNUSED
    THEN IF op = VHD_OP_DATA_WRITE /\ bat_locked(s)
         THEN [s EXCEPT !.ret = VHD_BM_BAT_LOCKED]
         ELSE [s EXCEPT !.ret = VHD_BM_BAT_CLEAR]
    ELSE IF s.ftr_type = HD_TYPE_DYNAMIC THEN [s EXCEPT !.ret = VHD_BM_BIT_SET]
    ELSE LET d == get_bitmap(s, blk) IN
         IF d = NULL THEN [s EXCEPT !.ret = VHD_BM_NOT_CACHED]
         ELSE With(touch_bitmap(s, d), LAMBDA s1 :
              IF test_vhd_flag(s1.bm[d].status, VHD_FLAG_BM_READ_PENDING)
              THEN [s1 EXCEPT !.ret = VHD_BM_READ_PENDING]
              ELSE [s1 EXCEPT !.ret = IF test_bit(sec, s1.bm[d].map)
                                      THEN VHD_BM_BIT_SET
                                      ELSE VHD_BM_BIT_CLEAR])

\* a write to an unallocated block let through whatever the BAT lock
read_bitmap_cache_no_lock(s, sector, op) ==
    LET blk == sector \div spb
        sec == sector % spb
    IN
    IF s.crashed # "" THEN s
    ELSE IF s.ftr_type = HD_TYPE_FIXED THEN [s EXCEPT !.ret = VHD_BM_BIT_SET]
    ELSE IF blk > max_bat_size THEN [s EXCEPT !.ret = -EINVAL]
    ELSE IF bat_entry(s, blk) = DD_BLK_UNUSED
    THEN IF FALSE
         THEN [s EXCEPT !.ret = VHD_BM_BAT_LOCKED]
         ELSE [s EXCEPT !.ret = VHD_BM_BAT_CLEAR]
    ELSE IF s.ftr_type = HD_TYPE_DYNAMIC THEN [s EXCEPT !.ret = VHD_BM_BIT_SET]
    ELSE LET d == get_bitmap(s, blk) IN
         IF d = NULL THEN [s EXCEPT !.ret = VHD_BM_NOT_CACHED]
         ELSE With(touch_bitmap(s, d), LAMBDA s1 :
              IF test_vhd_flag(s1.bm[d].status, VHD_FLAG_BM_READ_PENDING)
              THEN [s1 EXCEPT !.ret = VHD_BM_READ_PENDING]
              ELSE [s1 EXCEPT !.ret = IF test_bit(sec, s1.bm[d].map)
                                      THEN VHD_BM_BIT_SET
                                      ELSE VHD_BM_BIT_CLEAR])


read_bitmap_cache(s, sector, op) ==
    LET blk == sector \div spb
        sec == sector % spb
    IN
    IF s.crashed # "" THEN s
    ELSE IF s.ftr_type = HD_TYPE_FIXED THEN [s EXCEPT !.ret = VHD_BM_BIT_SET]
    ELSE IF blk > max_bat_size THEN [s EXCEPT !.ret = -EINVAL]
    ELSE IF bat_entry(s, blk) = DD_BLK_UNUSED
    THEN IF op = VHD_OP_DATA_WRITE /\ s.batst.pbw_blk # blk /\ bat_locked(s)
         THEN [s EXCEPT !.ret = VHD_BM_BAT_LOCKED]
         ELSE [s EXCEPT !.ret = VHD_BM_BAT_CLEAR]
    ELSE IF s.ftr_type = HD_TYPE_DYNAMIC THEN [s EXCEPT !.ret = VHD_BM_BIT_SET]
    ELSE LET d == get_bitmap(s, blk) IN
         IF d = NULL THEN [s EXCEPT !.ret = VHD_BM_NOT_CACHED]
         ELSE With(touch_bitmap(s, d), LAMBDA s1 :
              IF test_vhd_flag(s1.bm[d].status, VHD_FLAG_BM_READ_PENDING)
              THEN [s1 EXCEPT !.ret = VHD_BM_READ_PENDING]
              ELSE [s1 EXCEPT !.ret = IF test_bit(sec, s1.bm[d].map)
                                      THEN VHD_BM_BIT_SET
                                      ELSE VHD_BM_BIT_CLEAR])

\* the for loop of read_bitmap_cache_span, from bit sec with ret counted
RECURSIVE SpanRun(_, _, _, _, _)
SpanRun(map, sec, cnt, nr_secs, value) ==
    IF sec < spb /\ cnt < nr_secs /\ test_bit(sec, map) = value
    THEN SpanRun(map, sec + 1, cnt + 1, nr_secs, value)
    ELSE cnt

\* a span that is not cut at the end of the block on dynamic disks
read_bitmap_cache_span_whole(s, sector, nr_secs, value) ==
    LET sec == sector % spb
        d == get_bitmap(s, sector \div spb)
    IN
    IF s.ftr_type = HD_TYPE_FIXED THEN nr_secs
    ELSE IF s.ftr_type = HD_TYPE_DYNAMIC THEN nr_secs
    ELSE IF d = NULL \/ ~bitmap_valid(s.bm[d]) THEN -1
    ELSE SpanRun(s.bm[d].map, sec, 0, nr_secs, value)

\* read_bitmap_cache_span: the span length, -1 when its ASSERT fails
read_bitmap_cache_span(s, sector, nr_secs, value) ==
    LET sec == sector % spb
        d == get_bitmap(s, sector \div spb)
    IN
    IF s.ftr_type = HD_TYPE_FIXED THEN nr_secs
    ELSE IF s.ftr_type = HD_TYPE_DYNAMIC THEN MIN(nr_secs, spb - sec)
    ELSE IF d = NULL \/ ~bitmap_valid(s.bm[d]) THEN -1
    ELSE SpanRun(s.bm[d].map, sec, 0, nr_secs, value)

(* ------------------------------------------------------------------ *)
(* Scheduling I/O                                                       *)
(* ------------------------------------------------------------------ *)
\* the fields schedule_data_read/write and __vhd_queue_request fill in
FillRequest(s, r, op, sector, nr_secs, flags, id) ==
    [s EXCEPT !.req[r].lsec = sector, !.req[r].nr_secs = nr_secs,
              !.req[r].flags = flags, !.req[r].cb = TRUE, !.req[r].id = id,
              !.req[r].op = op]

\* a read of a fixed disk placed at the sector number taken as a byte
\* offset
schedule_data_read_unshifted(s, sector, nr_secs, flags, id) ==
    LET blk == sector \div spb
        sec == sector % spb
        d == get_bitmap(s, blk)
        fixed == s.ftr_type = HD_TYPE_FIXED
        offset == IF fixed THEN sector
                  ELSE (bat_entry(s, blk) + bm_secs + sec) * VHD_SECTOR_SIZE
    IN
    IF s.crashed # "" THEN s
    ELSE IF /\ s.ftr_type = HD_TYPE_DIFF
            /\ \/ bat_entry(s, blk) = DD_BLK_UNUSED
               \/ d = NULL
               \/ ~bitmap_valid(s.bm[d])
    THEN Crash(s, "assert:schedule_data_read")
    ELSE With(alloc_vhd_request(s), LAMBDA s1 :
         LET r == s1.ret IN
         IF s1.crashed # "" THEN s1
         ELSE IF r = NULL THEN [s1 EXCEPT !.ret = -ENOMEM]
         ELSE [aio_read(FillRequest(s1, r, VHD_OP_DATA_READ, sector,
                                    nr_secs, flags, id), r, offset)
                  EXCEPT !.ret = 0])

\* schedule_data_read: ret is 0 or -ENOMEM
schedule_data_read(s, sector, nr_secs, flags, id) ==
    LET blk == sector \div spb
        sec == sector % spb
        d == get_bitmap(s, blk)
        fixed == s.ftr_type = HD_TYPE_FIXED
        offset == IF fixed THEN sector * VHD_SECTOR_SIZE
                  ELSE (bat_entry(s, blk) + bm_secs + sec) * VHD_SECTOR_SIZE
    IN
    IF s.crashed # "" THEN s
    ELSE IF /\ s.ftr_type = HD_TYPE_DIFF
            /\ \/ bat_entry(s, blk) = DD_BLK_UNUSED
               \/ d = NULL
               \/ ~bitmap_valid(s.bm[d])
    THEN Crash(s, "assert:schedule_data_read")
    ELSE With(alloc_vhd_request(s), LAMBDA s1 :
         LET r == s1.ret IN
         IF s1.crashed # "" THEN s1
         ELSE IF r = NULL THEN [s1 EXCEPT !.ret = -ENOMEM]
         ELSE [aio_read(FillRequest(s1, r, VHD_OP_DATA_READ, sector,
                                    nr_secs, flags, id), r, offset)
                  EXCEPT !.ret = 0])

\* the tail of schedule_data_write, from make_request on
make_write_request(s, sector, nr_secs, flags, id, offset) ==
    With(alloc_vhd_request(s), LAMBDA s1 :
    LET r == s1.ret IN
    IF s1.crashed # "" THEN s1
    ELSE IF r = NULL THEN [s1 EXCEPT !.ret = -ENOMEM]
    ELSE
    With(get_bitmap(s1, sector \div spb), LAMBDA d :
    With(FillRequest(s1, r, VHD_OP_DATA_WRITE, sector, nr_secs, flags, id),
         LAMBDA s2 :
    With(IF ~test_vhd_flag(flags, VHD_FLAG_REQ_UPDATE_BITMAP) THEN s2
         ELSE IF d = NULL \/ ~bitmap_valid(s2.bm[d])
         THEN Crash(s2, "assert:schedule_data_write:bitmap")
         ELSE IF s2.bm[d].tx.closed
         THEN [lock_bitmap(s2, d) EXCEPT
                 !.req = [add_to_tail_next(s2.req, s2.bm[d].queue, r)
                            EXCEPT ![r].flags =
                               set_vhd_flag(flags, VHD_FLAG_REQ_QUEUED)],
                 !.bm[d].queue = add_to_tail(s2.bm[d].queue, r)]
         ELSE add_to_transaction(lock_bitmap(s2, d), d, r), LAMBDA s3 :
    [aio_write(s3, r, offset) EXCEPT !.ret = 0]))))

\* the data of a block being allocated written from pbw_offset on, where
\* the bitmap of the block is
schedule_data_write_over_bitmap(s, sector, nr_secs, flags, id) ==
    LET blk == sector \div spb
        sec == sector % spb
    IN
    IF s.crashed # "" THEN s
    ELSE IF s.ftr_type = HD_TYPE_FIXED
    THEN make_write_request(s, sector, nr_secs, flags, id,
                            sector * VHD_SECTOR_SIZE)
    ELSE IF test_vhd_flag(flags, VHD_FLAG_REQ_UPDATE_BAT)
    THEN With(update_bat(s, blk), LAMBDA s1 :
         IF s1.crashed # "" \/ s1.ret # 0 THEN s1
         ELSE make_write_request(s1, sector, nr_secs, flags, id,
                                 (s1.batst.pbw_offset + sec)
                                    * VHD_SECTOR_SIZE))
    ELSE make_write_request(s, sector, nr_secs, flags, id,
                            (bat_entry(s, blk) + bm_secs + sec)
                               * VHD_SECTOR_SIZE)

\* schedule_data_write: ret is 0, -EBUSY or -ENOMEM
schedule_data_write(s, sector, nr_secs, flags, id) ==
    LET blk == sector \div spb
        sec == sector % spb
    IN
    IF s.crashed # "" THEN s
    ELSE IF s.ftr_type = HD_TYPE_FIXED
    THEN make_write_request(s, sector, nr_secs, flags, id,
                            sector * VHD_SECTOR_SIZE)
    ELSE IF test_vhd_flag(flags, VHD_FLAG_REQ_UPDATE_BAT)
    THEN With(update_bat(s, blk), LAMBDA s1 :
         IF s1.crashed # "" \/ s1.ret # 0 THEN s1
         ELSE make_write_request(s1, sector, nr_secs, flags, id,
                                 (s1.batst.pbw_offset + bm_secs + sec)
                                    * VHD_SECTOR_SIZE))
    ELSE make_write_request(s, sector, nr_secs, flags, id,
                            (bat_entry(s, blk) + bm_secs + sec)
                               * VHD_SECTOR_SIZE)

\* schedule_bitmap_read: ret is 0 or -EBUSY
schedule_bitmap_read(s, blk) ==
    IF s.crashed # "" THEN s
    ELSE IF \/ s.ftr_type = HD_TYPE_FIXED
            \/ bat_entry(s, blk) = DD_BLK_UNUSED
            \/ get_bitmap(s, blk) # NULL
    THEN Crash(s, "assert:schedule_bitmap_read")
    ELSE With(alloc_vhd_bitmap_ret(s), LAMBDA d :
         With(alloc_vhd_bitmap(s, blk), LAMBDA s1 :
         IF s1.crashed # "" THEN s1
         ELSE IF d = NULL THEN [s1 EXCEPT !.ret = -EBUSY]
         ELSE
         LET r == BmReq(d) IN
         With([s1 EXCEPT !.req[r].lsec = blk * spb,
                         !.req[r].nr_secs = bm_secs,
                         !.req[r].op = VHD_OP_BITMAP_READ], LAMBDA s2 :
         With(aio_read(s2, r, bat_entry(s, blk) * VHD_SECTOR_SIZE),
              LAMBDA s3 :
         With(install_bitmap(lock_bitmap(s3, d), d), LAMBDA s4 :
         IF s4.crashed # "" THEN s4
         ELSE [s4 EXCEPT
                 !.bm[d].status = set_vhd_flag(s4.bm[d].status,
                                               VHD_FLAG_BM_READ_PENDING),
                 !.ret = 0])))))

schedule_bitmap_write(s, blk) ==
    LET d == get_bitmap(s, blk)
        entry == bat_entry(s, blk)
    IN
    IF s.crashed # "" THEN s
    ELSE IF \/ s.ftr_type = HD_TYPE_FIXED
            \/ d = NULL
            \/ ~bitmap_valid(s.bm[d])
            \/ test_vhd_flag(s.bm[d].status, VHD_FLAG_BM_WRITE_PENDING)
    THEN Crash(s, "assert:schedule_bitmap_write")
    ELSE IF entry = DD_BLK_UNUSED /\ s.batst.pbw_blk # blk
    THEN Crash(s, "assert:schedule_bitmap_write:pbw_blk")
    ELSE LET offset == IF entry = DD_BLK_UNUSED THEN s.batst.pbw_offset
                       ELSE entry
             r == BmReq(d)
         IN
         With([s EXCEPT !.req[r].lsec = blk * spb,
                        !.req[r].nr_secs = bm_secs,
                        !.req[r].op = VHD_OP_BITMAP_WRITE], LAMBDA s1 :
         With(touch_bitmap(lock_bitmap(
                  aio_write(s1, r, offset * VHD_SECTOR_SIZE), d), d),
              LAMBDA s2 :
         IF s2.crashed # "" THEN s2
         ELSE [s2 EXCEPT
                 !.bm[d].status = set_vhd_flag(s2.bm[d].status,
                                               VHD_FLAG_BM_WRITE_PENDING),
                 !.ret = 0]))

\* __vhd_queue_request: ret is 0 or -ENOMEM
vhd_queue_request(s, op, sector, nr_secs, id) ==
    LET d == get_bitmap(s, sector \div spb) IN
    IF s.crashed # "" THEN s
    ELSE IF \/ s.ftr_type = HD_TYPE_FIXED
            \/ d = NULL
            \/ ~test_vhd_flag(s.bm[d].status, VHD_FLAG_BM_READ_PENDING)
    THEN Crash(s, "assert:vhd_queue_request")
    ELSE With(alloc_vhd_request(s), LAMBDA s1 :
         LET r == s1.ret IN
         IF s1.crashed # "" THEN s1
         ELSE IF r = NULL THEN [s1 EXCEPT !.ret = -ENOMEM]
         ELSE
         With([s1 EXCEPT !.req[r].lsec = sector,
                         !.req[r].nr_secs = nr_secs,
                         !.req[r].cb = TRUE, !.req[r].id = id,
                         !.req[r].op = op], LAMBDA s2 :
         [lock_bitmap(s2, d) EXCEPT
            !.req = add_to_tail_next(s2.req, s2.bm[d].waiting, r),
            !.bm[d].waiting = add_to_tail(s2.bm[d].waiting, r),
            !.ret = 0]))

(* ------------------------------------------------------------------ *)
(* The request router                                                   *)
(* ------------------------------------------------------------------ *)
\* the while loop of vhd_queue_read from sector sec
RECURSIVE queue_read_loop(_, _, _, _)
queue_read_loop(s, sec, end, id) ==
    IF s.crashed # "" \/ sec >= end THEN s
    ELSE
    LET remaining == end - sec
        toblk == MIN(remaining, spb - (sec % spb))
    IN
    With(read_bitmap_cache(s, sec, VHD_OP_DATA_READ), LAMBDA s1 :
    LET c == s1.ret IN
    IF s1.crashed # "" THEN s1
    ELSE IF c = -EINVAL
    THEN callback(s1, -EINVAL, sec, remaining, id, VHD_OP_DATA_READ, {})
    ELSE IF c = VHD_BM_BAT_CLEAR
    THEN queue_read_loop(
             callback(s1, BLK_NOT_ALLOCATED, sec, toblk, id,
                      VHD_OP_DATA_READ, {}),
             sec + toblk, end, id)
    ELSE IF c = VHD_BM_BIT_CLEAR
    THEN LET n == read_bitmap_cache_span(s1, sec, remaining, FALSE) IN
         IF n = -1 THEN Crash(s1, "assert:read_bitmap_cache_span")
         ELSE queue_read_loop(
                  callback(s1, BLK_NOT_ALLOCATED, sec, n, id,
                           VHD_OP_DATA_READ, {}),
                  sec + n, end, id)
    ELSE IF c = VHD_BM_BIT_SET
    THEN LET n == read_bitmap_cache_span(s1, sec, remaining, TRUE) IN
         IF n = -1 THEN Crash(s1, "assert:read_bitmap_cache_span")
         ELSE With(schedule_data_read(s1, sec, n, {}, id), LAMBDA s2 :
              IF s2.crashed # "" THEN s2
              ELSE IF s2.ret # 0
              THEN callback(s2, s2.ret, sec, remaining, id,
                            VHD_OP_DATA_READ, {})
              ELSE queue_read_loop(s2, sec + n, end, id))
    ELSE IF c = VHD_BM_NOT_CACHED
    THEN With(schedule_bitmap_read(s1, sec \div spb), LAMBDA s2 :
         IF s2.crashed # "" THEN s2
         ELSE IF s2.ret # 0
         THEN callback(s2, s2.ret, sec, remaining, id, VHD_OP_DATA_READ, {})
         ELSE With(vhd_queue_request(s2, VHD_OP_DATA_READ, sec, toblk, id),
                   LAMBDA s3 :
              IF s3.crashed # "" THEN s3
              ELSE IF s3.ret # 0
              THEN callback(s3, s3.ret, sec, remaining, id,
                            VHD_OP_DATA_READ, {})
              ELSE queue_read_loop(s3, sec + toblk, end, id)))
    ELSE IF c = VHD_BM_READ_PENDING
    THEN With(vhd_queue_request(s1, VHD_OP_DATA_READ, sec, toblk, id),
              LAMBDA s3 :
         IF s3.crashed # "" THEN s3
         ELSE IF s3.ret # 0
         THEN callback(s3, s3.ret, sec, remaining, id, VHD_OP_DATA_READ, {})
         ELSE queue_read_loop(s3, sec + toblk, end, id))
    ELSE Crash(s1, "assert:vhd_queue_read:default"))

vhd_queue_read(s, sector, nr_sectors, id) ==
    queue_read_loop(s, sector, sector + nr_sectors, id)

\* one scheduled span of vhd_queue_write, then the rest of the loop
RECURSIVE queue_write_loop(_, _, _, _)
write_span(s, sec, end, id, n, flags) ==
    With(schedule_data_write(s, sec, n, flags, id), LAMBDA s2 :
    IF s2.crashed # "" THEN s2
    ELSE IF s2.ret # 0
    THEN callback(s2, s2.ret, sec, end - sec, id, VHD_OP_DATA_WRITE, {})
    ELSE queue_write_loop(s2, sec + n, end, id))

\* the while loop of vhd_queue_write from sector sec
queue_write_loop(s, sec, end, id) ==
    IF s.crashed # "" \/ sec >= end THEN s
    ELSE
    LET remaining == end - sec
        toblk == MIN(remaining, spb - (sec % spb))
    IN
    With(read_bitmap_cache(s, sec, VHD_OP_DATA_WRITE), LAMBDA s1 :
    LET c == s1.ret IN
    IF s1.crashed # "" THEN s1
    ELSE IF c = -EINVAL
    THEN callback(s1, -EINVAL, sec, remaining, id, VHD_OP_DATA_WRITE, {})
    ELSE IF c = VHD_BM_BAT_LOCKED
    THEN callback(s1, -EBUSY, sec, remaining, id, VHD_OP_DATA_WRITE, {})
    ELSE IF c = VHD_BM_BAT_CLEAR
    THEN write_span(s1, sec, end, id, toblk,
                    {VHD_FLAG_REQ_UPDATE_BAT, VHD_FLAG_REQ_UPDATE_BITMAP})
    ELSE IF c = VHD_BM_BIT_CLEAR
    THEN LET n == read_bitmap_cache_span(s1, sec, remaining, FALSE) IN
         IF n = -1 THEN Crash(s1, "assert:read_bitmap_cache_span")
         ELSE write_span(s1, sec, end, id, n, {VHD_FLAG_REQ_UPDATE_BITMAP})
    ELSE IF c = VHD_BM_BIT_SET
    THEN LET n == read_bitmap_cache_span(s1, sec, remaining, TRUE) IN
         IF n = -1 THEN Crash(s1, "assert:read_bitmap_cache_span")
         ELSE write_span(s1, sec, end, id, n, {})
    ELSE IF c = VHD_BM_NOT_CACHED
    THEN With(schedule_bitmap_read(s1, sec \div spb), LAMBDA s2 :
         IF s2.crashed # "" THEN s2
         ELSE IF s2.ret # 0
         THEN callback(s2, s2.ret, sec, remaining, id, VHD_OP_DATA_WRITE, {})
         ELSE With(vhd_queue_request(s2, VHD_OP_DATA_WRITE, sec, toblk, id),
                   LAMBDA s3 :
              IF s3.crashed # "" THEN s3
              ELSE IF s3.ret # 0
              THEN callback(s3, s3.ret, sec, remaining, id,
                            VHD_OP_DATA_WRITE, {})
              ELSE queue_write_loop(s3, sec + toblk, end, id)))
    ELSE IF c = VHD_BM_READ_PENDING
    THEN With(vhd_queue_request(s1, VHD_OP_DATA_WRITE, sec, toblk, id),
              LAMBDA s3 :
         IF s3.crashed # "" THEN s3
         ELSE IF s3.ret # 0
         THEN callback(s3, s3.ret, sec, remaining, id, VHD_OP_DATA_WRITE, {})
         ELSE queue_write_loop(s3, sec + toblk, end, id))
    ELSE Crash(s1, "assert:vhd_queue_write:default"))

vhd_queue_write(s, sector, nr_sectors, id) ==
    queue_write_loop(s, sector, sector + nr_sectors, id)

(* ------------------------------------------------------------------ *)
(* Completion finishers                                                 *)
(* ------------------------------------------------------------------ *)
\* signal_completion: every request of the chain from r has its callback
\* called and is freed (a freed request has cb = NULL)
RECURSIVE signal_completion(_, _, _)
signal_completion(s, r, error) ==
    IF s.crashed # "" \/ r = NULL THEN s
    ELSE IF ~s.req[r].cb THEN Crash(s, "segv")
    ELSE LET q == s.req[r]
             err == IF error # 0 THEN error ELSE q.error
         IN  signal_completion(
                 free_vhd_request(
                     callback_tx(s, err, q.lsec, q.nr_secs, q.id, q.op,
                                 q.flags, q.gen, q.error),
                     r),
                 q.next, error)

RECURSIVE finish_data_transaction(_, _)
RECURSIVE finish_bitmap_transaction(_, _, _)
RECURSIVE start_new_bitmap_transaction(_, _)

\* a promotion that does not count the writes that have already completed
RECURSIVE PromoteQueue_uncounted(_, _, _, _)
PromoteQueue_uncounted(s, d, r, completed) ==
    IF s.crashed # "" THEN [st |-> s, completed |-> completed]
    ELSE IF r = NULL THEN [st |-> s, completed |-> completed]
    ELSE
    LET next == s.req[r].next IN
    With([s EXCEPT !.req[r].next = NULL,
                   !.req[r].flags = clear_vhd_flag(s.req[r].flags,
                                                   VHD_FLAG_REQ_QUEUED)],
         LAMBDA s1 :
    IF s1.req[r].error # 0
    THEN PromoteQueue_uncounted(
             [s1 EXCEPT !.req = add_to_tail_next(s1.req, completed, r)],
             d, next, add_to_tail(completed, r))
    ELSE PromoteQueue_uncounted(add_to_transaction(s1, d, r), d, next,
                                completed))

\* the while loop of start_new_bitmap_transaction over the old queue from
\* r; completed is the local list of failed writes
RECURSIVE PromoteQueue(_, _, _, _)
PromoteQueue(s, d, r, completed) ==
    IF s.crashed # "" THEN [st |-> s, completed |-> completed]
    ELSE IF r = NULL THEN [st |-> s, completed |-> completed]
    ELSE
    LET next == s.req[r].next IN
    With([s EXCEPT !.req[r].next = NULL,
                   !.req[r].flags = clear_vhd_flag(s.req[r].flags,
                                                   VHD_FLAG_REQ_QUEUED)],
         LAMBDA s1 :
    IF s1.req[r].error # 0
    THEN PromoteQueue([s1 EXCEPT !.req = add_to_tail_next(s1.req, completed,
                                                          r)],
                      d, next, add_to_tail(completed, r))
    ELSE With(add_to_transaction(s1, d, r), LAMBDA s2 :
         LET q == s2.req[r] IN
         PromoteQueue(
             IF s2.crashed # "" THEN s2
             ELSE IF test_vhd_flag(q.flags, VHD_FLAG_REQ_FINISHED)
             THEN [s2 EXCEPT
                     !.bm[d].shadow =
                         IF s2.ftr_type = HD_TYPE_DIFF
                         THEN set_bits(s2.bm[d].shadow, q.lsec % spb,
                                       q.nr_secs)
                         ELSE s2.bm[d].shadow,
                     !.bm[d].tx.finished = s2.bm[d].tx.finished + 1]
             ELSE s2,
             d, next, completed)))

start_new_bitmap_transaction(s, d) ==
    LET r == s.bm[d].queue.head
        s1 == [s EXCEPT !.bm[d].queue = EmptyList]
    IN
    IF s.crashed # "" \/ r = NULL THEN s
    ELSE IF bat_entry(s, s.bm[d].blk) = DD_BLK_UNUSED
    THEN signal_completion(s1, r, -EIO)
    ELSE With(PromoteQueue(s1, d, r, EmptyList), LAMBDA p :
         signal_completion(
             IF p.st.crashed = "" /\ transaction_completed(p.st.bm[d].tx)
             THEN finish_data_transaction(p.st, d)
             ELSE p.st,
             p.completed.head, 0))

\* the next transaction started before the members of the finished one are
\* signalled
finish_bitmap_transaction_new_first(s, d, error) ==
    IF s.crashed # "" THEN s
    ELSE
    With([s EXCEPT !.bm[d].tx.error = IF @ # 0 THEN @ ELSE error],
         LAMBDA s1 :
    LET tx == s1.bm[d].tx IN
    IF test_vhd_flag(tx.status, VHD_FLAG_TX_UPDATE_BAT)
    THEN IF s1.bm[d].blk # s1.batst.pbw_blk
         THEN Crash(s1, "assert:finish_bitmap_transaction:pbw_blk")
         ELSE IF ~test_vhd_flag(s1.batst.status, VHD_FLAG_BAT_WRITE_STARTED)
         THEN Crash(s1, "assert:finish_bitmap_transaction:write_started")
         ELSE [s1 EXCEPT !.req[BAT_REQ].tx = d]
    ELSE With(start_new_bitmap_transaction(init_tx(s1, d), d), LAMBDA s2 :
         With(signal_completion(s2, tx.requests.head, tx.error),
              LAMBDA s3 :
         IF s3.crashed # "" THEN s3
         ELSE IF ~bitmap_in_use(s3.bm[d]) THEN unlock_bitmap(s3, d)
         ELSE s3)))

finish_bitmap_transaction(s, d, error) ==
    IF s.crashed # "" THEN s
    ELSE
    With([s EXCEPT !.bm[d].tx.error = IF @ # 0 THEN @ ELSE error],
         LAMBDA s1 :
    LET tx == s1.bm[d].tx IN
    IF test_vhd_flag(tx.status, VHD_FLAG_TX_UPDATE_BAT)
    THEN IF s1.bm[d].blk # s1.batst.pbw_blk
         THEN Crash(s1, "assert:finish_bitmap_transaction:pbw_blk")
         ELSE IF ~test_vhd_flag(s1.batst.status, VHD_FLAG_BAT_WRITE_STARTED)
         THEN Crash(s1, "assert:finish_bitmap_transaction:write_started")
         ELSE [s1 EXCEPT !.req[BAT_REQ].tx = d]
    ELSE With(signal_completion(s1, tx.requests.head, tx.error), LAMBDA s2 :
         With(IF s2.crashed # "" THEN s2
              ELSE start_new_bitmap_transaction(init_tx(s2, d), d),
              LAMBDA s3 :
         IF s3.crashed # "" THEN s3
         ELSE IF ~bitmap_in_use(s3.bm[d]) THEN unlock_bitmap(s3, d)
         ELSE s3)))

\* a transaction left open to new members while its bitmap write is issued
finish_data_transaction_open(s, d) ==
    IF s.crashed # "" THEN s
    ELSE IF s.bm[d].tx.error = 0 /\ s.ftr_type = HD_TYPE_DIFF
    THEN schedule_bitmap_write(s, s.bm[d].blk)
    ELSE finish_bitmap_transaction(s, d, 0)

finish_data_transaction(s, d) ==
    IF s.crashed # "" THEN s
    ELSE With([s EXCEPT !.bm[d].tx.closed = TRUE], LAMBDA s1 :
         IF s1.bm[d].tx.error = 0 /\ s1.ftr_type = HD_TYPE_DIFF
         THEN schedule_bitmap_write(s1, s1.bm[d].blk)
         ELSE finish_bitmap_transaction(s1, d, 0))

\* a BAT write finisher that records the entry whether or not the write
\* has failed
finish_bat_write_always(s, r) ==
    LET d == get_bitmap(s, s.batst.pbw_blk)
        error == s.req[r].error
    IN
    IF s.crashed # "" THEN s
    ELSE IF d = NULL \/ ~bitmap_valid(s.bm[d])
    THEN Crash(s, "assert:finish_bat_write:bitmap")
    ELSE IF ~(bat_locked(s)
              /\ test_vhd_flag(s.batst.status, VHD_FLAG_BAT_WRITE_STARTED))
    THEN Crash(s, "assert:finish_bat_write:locked")
    ELSE IF ~test_vhd_flag(s.bm[d].tx.status, VHD_FLAG_TX_LIVE)
    THEN Crash(s, "assert:finish_bat_write:live")
    ELSE
    With([set_bat_entry(s, s.batst.pbw_blk, s.batst.pbw_offset) EXCEPT
                   !.next_db = NextDbAfter(s.next_db),
                   !.bm[d].tx.error = IF error = 0 THEN @ ELSE error],
         LAMBDA s1 :
    With([s1 EXCEPT !.bm[d].tx.status =
                       clear_vhd_flag(@, VHD_FLAG_TX_UPDATE_BAT)], LAMBDA s2 :
    With(IF s2.req[BAT_REQ].tx # NULL
         THEN finish_bitmap_transaction(s2, d, error)
         ELSE s2, LAMBDA s3 :
    IF s3.crashed # "" THEN s3 ELSE init_bat(unlock_bat(s3)))))

finish_bat_write(s, r) ==
    LET d == get_bitmap(s, s.batst.pbw_blk)
        error == s.req[r].error
    IN
    IF s.crashed # "" THEN s
    ELSE IF d = NULL \/ ~bitmap_valid(s.bm[d])
    THEN Crash(s, "assert:finish_bat_write:bitmap")
    ELSE IF ~(bat_locked(s)
              /\ test_vhd_flag(s.batst.status, VHD_FLAG_BAT_WRITE_STARTED))
    THEN Crash(s, "assert:finish_bat_write:locked")
    ELSE IF ~test_vhd_flag(s.bm[d].tx.status, VHD_FLAG_TX_LIVE)
    THEN Crash(s, "assert:finish_bat_write:live")
    ELSE
    With(IF error = 0
         THEN [set_bat_entry(s, s.batst.pbw_blk, s.batst.pbw_offset) EXCEPT
                        !.next_db = NextDbAfter(s.next_db)]
         ELSE [s EXCEPT !.bm[d].tx.error = error], LAMBDA s1 :
    With([s1 EXCEPT !.bm[d].tx.status =
                       clear_vhd_flag(@, VHD_FLAG_TX_UPDATE_BAT)], LAMBDA s2 :
    With(IF s2.req[BAT_REQ].tx # NULL
         THEN finish_bitmap_transaction(s2, d, error)
         ELSE s2, LAMBDA s3 :
    IF s3.crashed # "" THEN s3 ELSE init_bat(unlock_bat(s3)))))

finish_zero_bm_write(s, r) ==
    LET blk == s.req[r].lsec \div spb
        d == get_bitmap(s, blk)
        t == s.req[r].tx
        error == s.req[r].error
    IN
    IF s.crashed # "" THEN s
    ELSE IF ~bat_locked(s) THEN Crash(s, "assert:finish_zero_bm_write:locked")
    ELSE IF s.batst.pbw_blk # blk
    THEN Crash(s, "assert:finish_zero_bm_write:pbw_blk")
    ELSE IF d = NULL \/ ~bitmap_valid(s.bm[d]) \/ ~bitmap_locked(s.bm[d])
    THEN Crash(s, "assert:finish_zero_bm_write:bitmap")
    ELSE IF t = NULL THEN Crash(s, "segv")
    ELSE
    With(remove_from_req_list([s EXCEPT !.bm[t].tx.finished = @ + 1], t, r),
         LAMBDA s1 :
    IF s1.crashed # "" THEN s1
    ELSE IF error # 0
    THEN With([init_bat(unlock_bat(s1)) EXCEPT
                 !.bm[t].tx.error = error,
                 !.bm[t].tx.status =
                    clear_vhd_flag(@, VHD_FLAG_TX_UPDATE_BAT)], LAMBDA s3 :
         IF transaction_completed(s3.bm[t].tx)
         THEN finish_data_transaction(s3, d)
         ELSE s3)
    ELSE schedule_bat_write(s1))

\* a loop that stops after the first request of the old waiting list
Requeue_first(s, r) ==
    IF s.crashed # "" \/ r = NULL THEN s
    ELSE LET tmp == s.req[r] IN
         With(free_vhd_request(s, r), LAMBDA s1 :
             IF tmp.op = VHD_OP_DATA_READ
             THEN vhd_queue_read(s1, tmp.lsec, tmp.nr_secs, tmp.id)
             ELSE IF tmp.op = VHD_OP_DATA_WRITE
             THEN vhd_queue_write(s1, tmp.lsec, tmp.nr_secs, tmp.id)
             ELSE Crash(s1, "assert:finish_bitmap_read:op"))

\* the while loop of finish_bitmap_read over the old waiting list from r
RECURSIVE Requeue(_, _)
Requeue(s, r) ==
    IF s.crashed # "" \/ r = NULL THEN s
    ELSE LET tmp == s.req[r] IN
         With(free_vhd_request(s, r), LAMBDA s1 :
             IF tmp.op = VHD_OP_DATA_READ
             THEN Requeue(vhd_queue_read(s1, tmp.lsec, tmp.nr_secs, tmp.id),
                          tmp.next)
             ELSE IF tmp.op = VHD_OP_DATA_WRITE
             THEN Requeue(vhd_queue_write(s1, tmp.lsec, tmp.nr_secs, tmp.id),
                          tmp.next)
             ELSE Crash(s1, "assert:finish_bitmap_read:op"))

finish_bitmap_read(s, r) ==
    LET blk == s.req[r].lsec \div spb
        d == get_bitmap(s, blk)
        error == s.req[r].error
    IN
    IF s.crashed # "" THEN s
    ELSE IF d = NULL
            \/ ~test_vhd_flag(s.bm[d].status, VHD_FLAG_BM_READ_PENDING)
    THEN Crash(s, "assert:finish_bitmap_read")
    ELSE
    LET w == s.bm[d].waiting.head IN
    With([s EXCEPT !.bm[d].waiting = EmptyList,
                   !.bm[d].status =
                      clear_vhd_flag(@, VHD_FLAG_BM_READ_PENDING)],
         LAMBDA s1 :
    With(IF error = 0
         THEN Requeue([s1 EXCEPT !.bm[d].shadow = s1.bm[d].map], w)
         ELSE IF w = NULL THEN Crash(s1, "segv")
         ELSE free_vhd_bitmap(signal_completion(s1, w, s1.req[w].error), d),
         LAMBDA s2 :
    IF s2.crashed # "" THEN s2
    ELSE IF ~bitmap_in_use(s2.bm[d]) THEN unlock_bitmap(s2, d)
    ELSE s2))

\* a failed bitmap write that leaves shadow as the data writes made it
finish_bitmap_write_keep_shadow(s, r) ==
    LET blk == s.req[r].lsec \div spb
        d == get_bitmap(s, blk)
        error == s.req[r].error
    IN
    IF s.crashed # "" THEN s
    ELSE IF d = NULL THEN Crash(s, "segv")
    ELSE IF ~s.bm[d].tx.closed THEN Crash(s, "assert:finish_bitmap_write:closed")
    ELSE IF ~bitmap_valid(s.bm[d])
    THEN Crash(s, "assert:finish_bitmap_write:valid")
    ELSE IF ~test_vhd_flag(s.bm[d].status, VHD_FLAG_BM_WRITE_PENDING)
    THEN Crash(s, "assert:finish_bitmap_write:pending")
    ELSE
    With([s EXCEPT !.bm[d].status =
                      clear_vhd_flag(@, VHD_FLAG_BM_WRITE_PENDING)],
         LAMBDA s1 :
    finish_bitmap_transaction(
        IF error # 0
        THEN s1
        ELSE [s1 EXCEPT !.bm[d].map = s1.bm[d].shadow],
        d, error))

finish_bitmap_write(s, r) ==
    LET blk == s.req[r].lsec \div spb
        d == get_bitmap(s, blk)
        error == s.req[r].error
    IN
    IF s.crashed # "" THEN s
    ELSE IF d = NULL THEN Crash(s, "segv")
    ELSE IF ~s.bm[d].tx.closed THEN Crash(s, "assert:finish_bitmap_write:closed")
    ELSE IF ~bitmap_valid(s.bm[d])
    THEN Crash(s, "assert:finish_bitmap_write:valid")
    ELSE IF ~test_vhd_flag(s.bm[d].status, VHD_FLAG_BM_WRITE_PENDING)
    THEN Crash(s, "assert:finish_bitmap_write:pending")
    ELSE
    With([s EXCEPT !.bm[d].status =
                      clear_vhd_flag(@, VHD_FLAG_BM_WRITE_PENDING)],
         LAMBDA s1 :
    finish_bitmap_transaction(
        IF error # 0
        THEN [s1 EXCEPT !.bm[d].shadow = s1.bm[d].map]
        ELSE [s1 EXCEPT !.bm[d].map = s1.bm[d].shadow],
        d, error))

finish_data_read(s, r) == signal_completion(s, r, 0)

\* a failed data write recorded as the error of its transaction
finish_data_write_tx_error(s, r) ==
    IF s.crashed # "" THEN s
    ELSE
    With([s EXCEPT !.req[r].flags =
                      set_vhd_flag(@, VHD_FLAG_REQ_FINISHED)], LAMBDA s1 :
    LET q == s1.req[r]
        t == q.tx
    IN
    With(get_bitmap(s1, q.lsec \div spb), LAMBDA d :
    IF t # NULL
    THEN IF d = NULL \/ ~bitmap_valid(s1.bm[d]) \/ ~bitmap_locked(s1.bm[d])
         THEN Crash(s1, "assert:finish_data_write:bitmap")
         ELSE With([s1 EXCEPT !.bm[t].tx.finished = @ + 1,
                              !.bm[t].tx.error =
                                 IF @ # 0 THEN @ ELSE q.error],
                   LAMBDA s2 :
              With(IF q.error = 0 /\ s2.ftr_type = HD_TYPE_DIFF
                   THEN [s2 EXCEPT !.bm[d].shadow =
                            set_bits(@, q.lsec % spb, q.nr_secs)]
                   ELSE s2, LAMBDA s3 :
              IF transaction_completed(s3.bm[t].tx)
              THEN finish_data_transaction(s3, d)
              ELSE s3))
    ELSE IF ~test_vhd_flag(q.flags, VHD_FLAG_REQ_QUEUED)
    THEN IF q.next # NULL THEN Crash(s1, "assert:finish_data_write:next")
         ELSE signal_completion(s1, r, 0)
    ELSE s1))

\* a data write finisher that sets the sectors' bits in map as well
finish_data_write_commits(s, r) ==
    IF s.crashed # "" THEN s
    ELSE
    With([s EXCEPT !.req[r].flags =
                      set_vhd_flag(@, VHD_FLAG_REQ_FINISHED)], LAMBDA s1 :
    LET q == s1.req[r]
        t == q.tx
    IN
    With(get_bitmap(s1, q.lsec \div spb), LAMBDA d :
    IF t # NULL
    THEN IF d = NULL \/ ~bitmap_valid(s1.bm[d]) \/ ~bitmap_locked(s1.bm[d])
         THEN Crash(s1, "assert:finish_data_write:bitmap")
         ELSE With([s1 EXCEPT !.bm[t].tx.finished = @ + 1], LAMBDA s2 :
              With(IF q.error = 0 /\ s2.ftr_type = HD_TYPE_DIFF
                   THEN [s2 EXCEPT
                           !.bm[d].shadow =
                              set_bits(@, q.lsec % spb, q.nr_secs),
                           !.bm[d].map =
                              set_bits(@, q.lsec % spb, q.nr_secs)]
                   ELSE s2, LAMBDA s3 :
              IF transaction_completed(s3.bm[t].tx)
              THEN finish_data_transaction(s3, d)
              ELSE s3))
    ELSE IF ~test_vhd_flag(q.flags, VHD_FLAG_REQ_QUEUED)
    THEN IF q.next # NULL THEN Crash(s1, "assert:finish_data_write:next")
         ELSE signal_completion(s1, r, 0)
    ELSE s1))

finish_data_write(s, r) ==
    IF s.crashed # "" THEN s
    ELSE
    With([s EXCEPT !.req[r].flags =
                      set_vhd_flag(@, VHD_FLAG_REQ_FINISHED)], LAMBDA s1 :
    LET q == s1.req[r]
        t == q.tx
    IN
    With(get_bitmap(s1, q.lsec \div spb), LAMBDA d :
    IF t # NULL
    THEN IF d = NULL \/ ~bitmap_valid(s1.bm[d]) \/ ~bitmap_locked(s1.bm[d])
         THEN Crash(s1, "assert:finish_data_write:bitmap")
         ELSE With([s1 EXCEPT !.bm[t].tx.finished = @ + 1], LAMBDA s2 :
              With(IF q.error = 0 /\ s2.ftr_type = HD_TYPE_DIFF
                   THEN [s2 EXCEPT !.bm[d].shadow =
                            set_bits(@, q.lsec % spb, q.nr_secs)]
                   ELSE s2, LAMBDA s3 :
              IF transaction_completed(s3.bm[t].tx)
              THEN finish_data_transaction(s3, d)
              ELSE s3))
    ELSE IF ~test_vhd_flag(q.flags, VHD_FLAG_REQ_QUEUED)
    THEN IF q.next # NULL THEN Crash(s1, "assert:finish_data_write:next")
         ELSE signal_completion(s1, r, 0)
    ELSE s1))

(* ------------------------------------------------------------------ *)
(* The image on disk and the OS asynchronous interface                  *)
(* ------------------------------------------------------------------ *)
\* the bits of the on-disk bitmap at sector offset off
DiskBits(dsk, off) == { b \in 0 .. (spb - 1) : <<off, b>> \in dsk.bm }

\* the descriptor whose request r is, NULL for any other request
DescOf(r) == IF r > VHD_REQS_DATA + 2 THEN r - (VHD_REQS_DATA + 2) ELSE NULL

\* what a successful transfer x leaves on the image and in the buffers
Transfer(s, x) ==
    LET sec == x.off \div VHD_SECTOR_SIZE
        cnt == x.n \div VHD_SECTOR_SIZE
        d == DescOf(x.io)
        wiped == { p \in s.disk.bm : p[1] # sec }
    IN
    IF x.kind = VHD_OP_DATA_WRITE /\ x.w
    THEN [s EXCEPT !.disk.data = @ \cup { <<sec + i, x.gid[2] + i>> :
                                             i \in 0 .. (cnt - 1) },
                   !.hist.landed = @ \cup {x.gid}]
    ELSE IF x.kind = VHD_OP_DATA_READ /\ ~x.w
    THEN [s EXCEPT !.hist.landed = @ \cup {x.gid}]
    ELSE IF x.kind = VHD_OP_ZERO_BM_WRITE /\ x.w
    THEN [s EXCEPT !.disk.bm = wiped]
    ELSE IF x.kind = VHD_OP_BITMAP_WRITE /\ x.w /\ d # NULL
    THEN [s EXCEPT !.disk.bm = wiped \cup
                                 { <<sec, b>> : b \in s.bm[d].shadow }]
    ELSE IF x.kind = VHD_OP_BITMAP_READ /\ ~x.w /\ d # NULL
    THEN [s EXCEPT !.bm[d].map = DiskBits(s.disk, sec)]
    ELSE IF x.kind = VHD_OP_BAT_WRITE /\ x.w
    THEN [s EXCEPT !.disk.bat = s.batst.buf]
    ELSE s

\* io_submit accepting every queued control block: the OS copies each
SubmitAll(s) ==
    [s EXCEPT
       !.inflight = @ \cup
          { [io |-> s.iocb_queue[i], w |-> s.req[s.iocb_queue[i]].io.w,
             off |-> s.req[s.iocb_queue[i]].io.off,
             n |-> s.req[s.iocb_queue[i]].io.n,
             kind |-> s.req[s.iocb_queue[i]].io.kind,
             gid |-> s.req[s.iocb_queue[i]].io.gid] :
            i \in 1 .. Len(s.iocb_queue) },
       !.iocb_queue = <<>>]

\* vhd_submit when io_submit takes the whole batch
vhd_submit(s) ==
    IF s.crashed # "" \/ Len(s.iocb_queue) = 0 THEN s ELSE SubmitAll(s)

\* the switch of vhd_do_callbacks on req->op
dispatch(s, r) ==
    LET op == s.req[r].op IN
    IF op = VHD_OP_DATA_READ THEN finish_data_read(s, r)
    ELSE IF op = VHD_OP_DATA_WRITE THEN finish_data_write(s, r)
    ELSE IF op = VHD_OP_BITMAP_READ THEN finish_bitmap_read(s, r)
    ELSE IF op = VHD_OP_BITMAP_WRITE THEN finish_bitmap_write(s, r)
    ELSE IF op = VHD_OP_ZERO_BM_WRITE THEN finish_zero_bm_write(s, r)
    ELSE IF op = VHD_OP_BAT_WRITE THEN finish_bat_write(s, r)
    ELSE Crash(s, "assert:vhd_do_callbacks:op")

\* ghost: the transaction that request r serves when its I/O completes: its
\* own for a data request, the one of its bitmap for a bitmap write, the one
\* of the bitmap of pbw_blk for the ZERO_BM_WRITE and the BAT write
ServedTx(s, r) ==
    IF r \in DataReqs THEN s.req[r].gen
    ELSE IF r \in {ZERO_REQ, BAT_REQ}
    THEN LET d == get_bitmap(s, s.batst.pbw_blk)
         IN  IF d = NULL THEN 0 ELSE s.bm[d].tx.gen
    ELSE s.bm[DescOf(r)].tx.gen

\* ghost: the record of a request whose I/O has failed
Failure(s, r) ==
    [op |-> s.req[r].op, id |-> s.req[r].id, sec |-> s.req[r].lsec,
     gen |-> ServedTx(s, r)]

\* fail_vhd_request: the request is finished with err by the finisher of
\* its op
fail_vhd_request(s, r, err) ==
    IF s.crashed # "" THEN s
    ELSE IF r = NULL THEN Crash(s, "segv")
    ELSE IF s.req[r].next # NULL
    THEN Crash(s, "assert:fail_vhd_request:next")
    ELSE dispatch([s EXCEPT !.req[r].error = err,
                            !.hist.failed = @ \cup {Failure(s, r)}], r)

\* the loop of vhd_submit over the control blocks that were not taken, from
\* place i of the vector; the vector's length is read anew in every turn,
\* so a control block that a finisher queues meanwhile is failed as well
RECURSIVE FailFrom(_, _, _)
FailFrom(s, i, err) ==
    IF s.crashed # "" \/ i > Len(s.iocb_queue) THEN s
    ELSE FailFrom(fail_vhd_request(s, s.req[s.iocb_queue[i]].io.data, err),
                  i + 1, err)

\* vhd_submit when io_submit returns ret: a negative error, or the number
\* of control blocks it took, fewer than were queued
vhd_submit_ret(s, ret) ==
    LET took == IF ret < 0 THEN 0 ELSE ret
        err == IF ret < 0 THEN ret ELSE -EIO
    IN
    IF s.crashed # "" \/ Len(s.iocb_queue) = 0 THEN s
    ELSE With([SubmitAll([s EXCEPT !.iocb_queue = SubSeq(@, 1, took)])
                 EXCEPT !.iocb_queue = s.iocb_queue,
                        !.hist.fails = @ + 1],
              LAMBDA s1 :
         With(FailFrom(s1, took + 1, err), LAMBDA s2 :
         IF s2.crashed # "" THEN s2
         ELSE [s2 EXCEPT !.iocb_queue = <<>>]))

\* vhd_do_callbacks for one event: control block x has completed, ok
\* telling whether it transferred all its bytes.  The event names the
\* iocb; the request and the byte count are read from it as they are now.
vhd_do_callbacks(s, x, ok) ==
    With([s EXCEPT !.inflight = @ \ {x},
                   !.hist.fails = IF ok THEN @ ELSE @ + 1], LAMBDA s0 :
    With(IF ok THEN Transfer(s0, x) ELSE s0, LAMBDA s1 :
    LET io == s1.req[x.io].io
        r == io.data
        nr_iocbs == Len(s1.iocb_queue)
    IN
    IF r = NULL THEN Crash(s1, "segv")
    ELSE With(dispatch(IF ok /\ x.n = io.n
                       THEN [s1 EXCEPT !.req[r].error = 0]
                       ELSE [s1 EXCEPT !.req[r].error = -EIO,
                                       !.hist.failed = @ \cup {Failure(s1, r)}],
                       r),
              LAMBDA s2 :
         IF s2.crashed # "" THEN s2
         ELSE IF Len(s2.iocb_queue) # nr_iocbs THEN vhd_submit(s2)
         ELSE s2)))

(* ------------------------------------------------------------------ *)
(* Initial states: vhd_open on an image                                 *)
(* ------------------------------------------------------------------ *)
\* sectors the host addresses: the first and the last of each of the first
\* HostBlocks blocks
InSecs == { b * spb + k : b \in 0 .. (HostBlocks - 1), k \in {0, spb - 1} }
HostSize == HostBlocks * spb

NoBat == [b \in Blocks |-> DD_BLK_UNUSED]

\* what the memory after the table may hold when the image is opened: the
\* pattern of an unused entry, or a word that reads as a block's offset
PastWords == {DD_BLK_UNUSED, FirstDb}

\* the tables of the images opened: a fresh one, and one whose block 0
\* holds sector 0
Images ==
    { [bat |-> NoBat, bm |-> {}, data |-> {}],
      [bat |-> [NoBat EXCEPT ![0] = FirstDb], bm |-> {<<FirstDb, 0>>},
       data |-> {<<FirstDb + bm_secs, 0>>}] }

\* vhd_read_bat: next_db for the table read
RECURSIVE ReadBatNext(_, _, _)
ReadBatNext(tbl, i, n) ==
    IF i >= max_bat_size THEN n
    ELSE IF tbl[i] # DD_BLK_UNUSED /\ tbl[i] >= n
    THEN ReadBatNext(tbl, i + 1, tbl[i] + spb + bm_secs)
    ELSE ReadBatNext(tbl, i + 1, n)

vhd_read_bat(tbl) ==
    LET n == ReadBatNext(tbl, 0,
                         (table_offset \div VHD_SECTOR_SIZE)
                            + secs_round_up(4 * max_bat_size))
    IN  IF (n + bm_secs) % spp # 0
        THEN n + (spp - ((n + bm_secs) % spp))
        ELSE n

InitImage(type, img, word) ==
    /\ ftr_type = type
    /\ past = word
    /\ bat = IF type = HD_TYPE_FIXED THEN NoBat ELSE img.bat
    /\ next_db = IF type = HD_TYPE_FIXED THEN 0 ELSE vhd_read_bat(img.bat)
    /\ batst = [status |-> {}, pbw_blk |-> 0, pbw_offset |-> 0,
                buf |-> NoBat]
    /\ req = [r \in ReqIds |-> ZeroRequest]
    /\ bm = [d \in Descs |-> ZeroBitmap]
    /\ bitmap = [i \in Descs |-> NULL]
    /\ bitmap_free = [i \in 1 .. VHD_CACHE_SIZE |-> i]
    /\ bm_lru = 0
    /\ vreq_free = [i \in 1 .. VHD_REQS_DATA |-> i]
    /\ iocb_queue = <<>>
    /\ inflight = {}
    /\ disk = IF type = HD_TYPE_FIXED
              THEN [bat |-> NoBat, bm |-> {}, data |-> {}]
              ELSE img
    /\ crashed = ""
    /\ hist = [ops |-> 0, fails |-> 0, cbs |-> {}, landed |-> {}, txn |-> 0,
               failed |-> {}]

\* the hosts below address the first HostBlocks blocks only and the word
\* after the table is never read: one value of it stands for all
InitWith(type, img) == InitImage(type, img, DD_BLK_UNUSED)

Init ==
    \/ InitWith(HD_TYPE_FIXED, CHOOSE i \in Images : i.bm = {})
    \/ \E type \in {HD_TYPE_DYNAMIC, HD_TYPE_DIFF} :
         \E img \in Images : InitWith(type, img)

(* ------------------------------------------------------------------ *)
(* Actions: the host's calls                                            *)
(* ------------------------------------------------------------------ *)
\* the step is the host's vhd_queue_write of n sectors from sector
QueueWriteAt(sector, n) ==
    /\ crashed = ""
    /\ hist.ops < MaxOps
    /\ sector + n <= HostSize
    /\ Becomes(vhd_queue_write([state EXCEPT !.hist.ops = @ + 1],
                               sector, n, hist.ops + 1))

QueueWrite ==
    /\ crashed = ""
    /\ hist.ops < MaxOps
    /\ \E sector \in InSecs : \E n \in 1 .. MaxLen :
         /\ sector + n <= HostSize
         /\ Becomes(vhd_queue_write([state EXCEPT !.hist.ops = @ + 1],
                                    sector, n, hist.ops + 1))

\* the step is the host's vhd_queue_read of n sectors from sector
QueueReadAt(sector, n) ==
    /\ crashed = ""
    /\ hist.ops < MaxOps
    /\ sector + n <= HostSize
    /\ Becomes(vhd_queue_read([state EXCEPT !.hist.ops = @ + 1],
                              sector, n, hist.ops + 1))

QueueRead ==
    /\ crashed = ""
    /\ hist.ops < MaxOps
    /\ \E sector \in InSecs : \E n \in 1 .. MaxLen :
         /\ sector + n <= HostSize
         /\ Becomes(vhd_queue_read([state EXCEPT !.hist.ops = @ + 1],
                                   sector, n, hist.ops + 1))

Submit ==
    /\ crashed = ""
    /\ Len(iocb_queue) > 0
    /\ Becomes(vhd_submit(state))

DoCallbacks ==
    /\ crashed = ""
    /\ \E x \in inflight : Becomes(vhd_do_callbacks(state, x, TRUE))

DoCallbacksError ==
    /\ crashed = ""
    /\ hist.fails < MaxFail
    /\ \E x \in inflight : Becomes(vhd_do_callbacks(state, x, FALSE))

Next == QueueWrite \/ QueueRead \/ Submit \/ DoCallbacks \/ DoCallbacksError

Spec == Init /\ [][Next]_vars

(* ------------------------------------------------------------------ *)
(* Allocation runs: single-sector writes to a sparse image that starts  *)
(* with no block allocated                                              *)
(* ------------------------------------------------------------------ *)
InitAlloc ==
    \E type \in {HD_TYPE_DYNAMIC, HD_TYPE_DIFF} :
        InitWith(type, CHOOSE i \in Images : i.bm = {})

AllocWrite ==
    /\ crashed = ""
    /\ hist.ops < MaxWrites
    /\ \E sector \in InSecs :
         Becomes(vhd_queue_write([state EXCEPT !.hist.ops = @ + 1],
                                 sector, 1, hist.ops + 1))

NextAlloc == AllocWrite \/ Submit \/ DoCallbacks \/ DoCallbacksError

SpecAlloc == InitAlloc /\ [][NextAlloc]_vars

(* ------------------------------------------------------------------ *)
(* Cache runs: one-sector requests to a differencing image all of whose *)
(* blocks are allocated, one block more than the cache holds bitmaps    *)
(* ------------------------------------------------------------------ *)
\* where the blocks of a full image lie: one after the other from FirstDb
RECURSIVE FullBatAt(_)
FullBatAt(b) == IF b = 0 THEN FirstDb ELSE NextDbAfter(FullBatAt(b - 1))

FullImage == [bat |-> [b \in Blocks |-> FullBatAt(b)], bm |-> {}, data |-> {}]

InitCache == InitWith(HD_TYPE_DIFF, FullImage)

\* the blocks the host's next call may address: the k-th call one of the
\* first k blocks, so that the blocks are first addressed in their order
NextBlocks == { b \in Blocks : b <= hist.ops }

\* the step is the host's vhd_queue_read of the first sector of block blk
CacheReadAt(blk) ==
    /\ crashed = ""
    /\ hist.ops < MaxCacheOps
    /\ blk \in NextBlocks
    /\ Becomes(vhd_queue_read([state EXCEPT !.hist.ops = @ + 1],
                              blk * spb, 1, hist.ops + 1))

CacheRead ==
    /\ crashed = ""
    /\ hist.ops < MaxCacheOps
    /\ \E blk \in NextBlocks :
         Becomes(vhd_queue_read([state EXCEPT !.hist.ops = @ + 1],
                                blk * spb, 1, hist.ops + 1))

\* the step is the host's vhd_queue_write of the first sector of block blk
CacheWriteAt(blk) ==
    /\ crashed = ""
    /\ hist.ops < MaxCacheOps
    /\ blk \in NextBlocks
    /\ Becomes(vhd_queue_write([state EXCEPT !.hist.ops = @ + 1],
                               blk * spb, 1, hist.ops + 1))

CacheWrite ==
    /\ crashed = ""
    /\ hist.ops < MaxCacheOps
    /\ \E blk \in NextBlocks :
         Becomes(vhd_queue_write([state EXCEPT !.hist.ops = @ + 1],
                                 blk * spb, 1, hist.ops + 1))

\* every completion reports success in these runs
NextCache == CacheRead \/ CacheWrite \/ Submit \/ DoCallbacks

SpecCache == InitCache /\ [][NextCache]_vars

(* ------------------------------------------------------------------ *)
(* Submission runs: io_submit may reject the batch or take only a part  *)
(* of it, once; every completion reports success                        *)
(* ------------------------------------------------------------------ *)
\* what io_submit returns when it does not take the whole batch
SubmitRets == {-EAGAIN} \cup (0 .. (Len(iocb_queue) - 1))

SubmitPartial ==
    /\ crashed = ""
    /\ Len(iocb_queue) > 0
    /\ hist.fails < MaxFail
    /\ \E ret \in SubmitRets : Becomes(vhd_submit_ret(state, ret))

NextSubmit ==
    QueueWrite \/ QueueRead \/ Submit \/ SubmitPartial \/ DoCallbacks

SpecSubmit == Init /\ [][NextSubmit]_vars

(* ------------------------------------------------------------------ *)
(* Range runs: the host addresses the last block of the table and the   *)
(* two blocks after it; every completion reports success                *)
(* ------------------------------------------------------------------ *)
\* the first and the last sector of blocks max_bat_size - 1 .. max_bat_size + 1
RangeSecs ==
    { b * spb + k : b \in (max_bat_size - 1) .. (max_bat_size + 1),
                    k \in {0, spb - 1} }

InitRange ==
    \E type \in {HD_TYPE_DYNAMIC, HD_TYPE_DIFF} :
      \E img \in Images : \E word \in PastWords : InitImage(type, img, word)

\* the step is the host's vhd_queue_read of n sectors from sector
RangeReadAt(sector, n) ==
    /\ crashed = ""
    /\ hist.ops < MaxOps
    /\ Becomes(vhd_queue_read([state EXCEPT !.hist.ops = @ + 1],
                              sector, n, hist.ops + 1))

\* the step is the host's vhd_queue_write of n sectors from sector
RangeWriteAt(sector, n) ==
    /\ crashed = ""
    /\ hist.ops < MaxOps
    /\ Becomes(vhd_queue_write([state EXCEPT !.hist.ops = @ + 1],
                               sector, n, hist.ops + 1))

RangeRead ==
    /\ crashed = ""
    /\ hist.ops < MaxOps
    /\ \E sector \in RangeSecs : \E n \in 1 .. MaxLen :
         Becomes(vhd_queue_read([state EXCEPT !.hist.ops = @ + 1],
                                sector, n, hist.ops + 1))

RangeWrite ==
    /\ crashed = ""
    /\ hist.ops < MaxOps
    /\ \E sector \in RangeSecs : \E n \in 1 .. MaxLen :
         Becomes(vhd_queue_write([state EXCEPT !.hist.ops = @ + 1],
                                 sector, n, hist.ops + 1))

NextRange == RangeRead \/ RangeWrite \/ Submit \/ DoCallbacks

SpecRange == InitRange /\ [][NextRange]_vars

(* ------------------------------------------------------------------ *)
(* Properties                                                           *)
(* ------------------------------------------------------------------ *)
\* the callbacks that told the caller a write on a sparse image succeeded
WriteAcks ==
    { c \in hist.cbs : c.op = VHD_OP_DATA_WRITE /\ c.err = 0
                       /\ ftr_type # HD_TYPE_FIXED }

\* C1: on a dynamic or differencing image a write callback is invoked with
\* error 0 only after the write's own data I/O has completed successfully
\* and its sectors are reachable through the table (and, differencing,
\* the bitmap) on the image, whatever the order of the completions.
C1_AckAfterDurable == \A c \in WriteAcks : c.io /\ c.ondisk

\* C2: crash consistency.  In every state, for every block the table on
\* the image allocates, every bit set in the block's bitmap on the image
\* marks a sector whose data write has completed successfully at the
\* block's data offset.
C2_BitmapBackedByData ==
    \A blk \in Blocks :
        disk.bat[blk] # DD_BLK_UNUSED =>
            \A b \in DiskBits(disk, disk.bat[blk]) :
                <<disk.bat[blk] + bm_secs + b, blk * spb + b>> \in disk.data

\* nothing is queued, nothing is in flight, the process is alive: no
\* further completion will arrive
Quiescent == crashed = "" /\ iocb_queue = <<>> /\ inflight = {}

\* C3: every accepted span gets its callback once all its I/O has
\* completed, with no further request needed: when every I/O handed to the
\* OS has completed, no data request is still waiting for its callback.
C3_NoSpanLeftBehind == Quiescent => Len(vreq_free) = VHD_REQS_DATA

\* control blocks of request r that are queued or in flight
Outstanding(r) ==
    Cardinality({ x \in inflight : x.io = r })
      + Cardinality({ i \in 1 .. Len(iocb_queue) : iocb_queue[i] = r })

\* the descriptors installed in the cache
Cached == { d \in Descs : \E i \in 1 .. VHD_CACHE_SIZE : bitmap[i] = d }

WritePending(d) == test_vhd_flag(bm[d].status, VHD_FLAG_BM_WRITE_PENDING)
ReadPending(d) == test_vhd_flag(bm[d].status, VHD_FLAG_BM_READ_PENDING)
UpdatingBat(d) == test_vhd_flag(bm[d].tx.status, VHD_FLAG_TX_UPDATE_BAT)

\* C4: at most one block allocation is pending, at most one BAT write and
\* at most one ZERO_BM_WRITE are outstanding, and they are outstanding
\* only while the BAT lock is held.
C4_OneAllocation ==
    /\ Outstanding(BAT_REQ) <= 1
    /\ Outstanding(ZERO_REQ) <= 1
    /\ Outstanding(BAT_REQ) + Outstanding(ZERO_REQ) > 0 => bat_locked(state)
    /\ crashed = "" =>
         \A d \in Cached :
            UpdatingBat(d) => bat_locked(state) /\ batst.pbw_blk = bm[d].blk

\* C4 witness: the BAT write of an allocation is in flight under the lock
C4_BatWriteInFlight ==
    /\ crashed = ""
    /\ \E x \in inflight : x.io = BAT_REQ
    /\ bat_locked(state)

\* C5: a bitmap's request carries at most one I/O at a time: READ_PENDING
\* and WRITE_PENDING are never both set, no bitmap write is scheduled
\* while one is pending, and the request is outstanding exactly while one
\* of the two flags is set.
C5_OneBitmapIo ==
    /\ crashed # "assert:schedule_bitmap_write"
    /\ \A d \in Descs :
         /\ Outstanding(BmReq(d)) <= 1
         /\ ~(ReadPending(d) /\ WritePending(d))
         /\ crashed = "" =>
              (Outstanding(BmReq(d)) = 1
                 <=> (ReadPending(d) \/ WritePending(d)))

\* C5 witness: a bitmap write is in flight while a later write to the same
\* block waits in the bitmap's queue
C5_WriteQueuedBehindBitmapWrite ==
    \E d \in Cached :
        /\ WritePending(d)
        /\ \E x \in inflight : x.io = BmReq(d)
        /\ bm[d].queue.head # NULL

\* C6 (as stated): the bitmap write of an allocating transaction is never
\* outstanding together with the BAT write of that allocation.
C6_BitmapWriteAfterBatWrite ==
    \A d \in Cached :
        ~(/\ WritePending(d)
          /\ Outstanding(BmReq(d)) > 0
          /\ Outstanding(BAT_REQ) > 0
          /\ batst.pbw_blk = bm[d].blk)

\* C6 (amended): a bitmap write is issued only in a step that closes the
\* bitmap's transaction with its finished count equal to its started count
\* and no error recorded; it is not held back for the BAT write.
C6_BitmapWriteAtClose ==
    [][\A d \in Descs :
          (~WritePending(d) /\ test_vhd_flag(bm'[d].status,
                                             VHD_FLAG_BM_WRITE_PENDING))
             => /\ bm'[d].tx.closed
                /\ bm'[d].tx.started = bm'[d].tx.finished
                /\ bm'[d].tx.error = 0]_vars

\* C6 witness: the bitmap write and the BAT write of one allocation are in
\* flight together
C6_BothInFlight ==
    \E d \in Cached :
        /\ WritePending(d) /\ UpdatingBat(d)
        /\ batst.pbw_blk = bm[d].blk
        /\ \E x \in inflight : x.io = BmReq(d)
        /\ \E x \in inflight : x.io = BAT_REQ

\* C7: the BAT write of an allocation is outstanding only when the
\* zero-bitmap write and every data write of the transaction have
\* completed.
C7_BatWriteAfterData ==
    \A d \in Cached :
        (Outstanding(BAT_REQ) > 0 /\ batst.pbw_blk = bm[d].blk) =>
            /\ Outstanding(ZERO_REQ) = 0
            /\ \A r \in DataReqs :
                 (req[r].tx = d /\ req[r].op = VHD_OP_DATA_WRITE)
                    => Outstanding(r) = 0

\* the last ZERO_BM_WRITE to complete failed
ZeroFailed == req[ZERO_REQ].error # 0

\* C8: the BAT write and the bitmap write of an allocation are outstanding
\* only after the allocation's ZERO_BM_WRITE succeeded; after it failed
\* there is no BAT write, the lock is released, the entry is UNUSED, the
\* transaction carries the error and does not outlive its members.
C8_ZeroBitmapFirst ==
    /\ Outstanding(BAT_REQ) > 0 =>
          Outstanding(ZERO_REQ) = 0 /\ ~ZeroFailed
    /\ \A d \in Cached :
          (WritePending(d) /\ UpdatingBat(d)) =>
              Outstanding(ZERO_REQ) = 0 /\ ~ZeroFailed
    /\ (crashed = "" /\ ZeroFailed) =>
          /\ Outstanding(ZERO_REQ) = 0 =>
                ~bat_locked(state) /\ Outstanding(BAT_REQ) = 0
          /\ bat[req[ZERO_REQ].lsec \div spb] = DD_BLK_UNUSED
          /\ \A d \in Cached :
                (/\ Outstanding(ZERO_REQ) = 0
                 /\ bm[d].blk = req[ZERO_REQ].lsec \div spb
                 /\ test_vhd_flag(bm[d].tx.status, VHD_FLAG_TX_LIVE))
                   => /\ bm[d].tx.error # 0
                      /\ (~WritePending(d)
                            => bm[d].tx.started # bm[d].tx.finished)

\* the sectors of the block placed at offset o: its bitmap and its data
Extent(o) == o .. (o + bm_secs + spb - 1)

\* the first sector after the table
BatEnd == (table_offset \div VHD_SECTOR_SIZE) + secs_round_up(4 * max_bat_size)

\* C9: every allocated entry of the table lies after the table and below
\* next_db, and the extents of the allocated blocks and of the pending
\* reservation are pairwise disjoint.
C9_ExtentsDisjoint ==
    crashed = "" =>
      /\ \A b \in Blocks :
           bat[b] # DD_BLK_UNUSED =>
              /\ bat[b] >= BatEnd
              /\ bat[b] + spb + bm_secs <= next_db
      /\ \A b, c \in Blocks :
           (b # c /\ bat[b] # DD_BLK_UNUSED /\ bat[c] # DD_BLK_UNUSED)
              => Extent(bat[b]) \cap Extent(bat[c]) = {}
      /\ bat_locked(state) =>
           \A b \in Blocks :
              bat[b] # DD_BLK_UNUSED
                 => Extent(bat[b]) \cap Extent(batst.pbw_offset) = {}

\* C9 witness: every block the host addresses has been allocated, the
\* second one placed after the first
C9_TwoBlocksAllocated ==
    /\ crashed = ""
    /\ \A b \in 0 .. (HostBlocks - 1) : bat[b] # DD_BLK_UNUSED
    /\ hist.ops > 0

\* C10: a cached bitmap whose read has completed and whose transaction is
\* not live has map equal to shadow.
C10_MapEqualsShadow ==
    \A d \in Cached :
        (/\ ~ReadPending(d)
         /\ ~test_vhd_flag(bm[d].tx.status, VHD_FLAG_TX_LIVE)
         /\ bm[d].tx.requests.head = NULL)
           => bm[d].map = bm[d].shadow


(* ------------------------------------------------------------------ *)
(* Order of the callbacks of successive transactions                    *)
(* ------------------------------------------------------------------ *)
\* the callbacks made for members of transactions
TxCallbacks == { c \in hist.cbs : c.gen # 0 }
BlockOf(c) == c.sec \div spb

\* C11: within one block, every callback of a write of a transaction is made
\* before any callback of a write of a later transaction of that block's
\* bitmap
C11_CallbacksInTransactionOrder ==
    \A c1, c2 \in TxCallbacks :
        (BlockOf(c1) = BlockOf(c2) /\ c1.gen < c2.gen) => c1.seq < c2.seq

\* two writes of one block have had their callbacks from two successive
\* transactions of the block's bitmap
C11_TwoTransactionsSignalled ==
    /\ crashed = ""
    /\ \E c1, c2 \in TxCallbacks :
          /\ BlockOf(c1) = BlockOf(c2)
          /\ c2.gen = c1.gen + 1
          /\ c1.op = VHD_OP_DATA_WRITE /\ c2.op = VHD_OP_DATA_WRITE


(* ------------------------------------------------------------------ *)
(* The error of a transaction                                           *)
(* ------------------------------------------------------------------ *)
MetadataOps == {VHD_OP_ZERO_BM_WRITE, VHD_OP_BAT_WRITE, VHD_OP_BITMAP_WRITE}
\* a metadata write of transaction g has failed
MetaFailed(g) == \E f \in hist.failed : f.gen = g /\ f.op \in MetadataOps
\* a metadata write of some transaction has failed
AnyMetaFailed == \E f \in hist.failed : f.op \in MetadataOps
\* the data write whose callback is c has failed
OwnFailed(c) == c.own # 0

\* C12 as stated: when a data write of a transaction fails, every member of
\* the transaction has its callback called with an error
C12_MembersShareError ==
    \A c1, c2 \in TxCallbacks :
        (c1.gen = c2.gen /\ OwnFailed(c1)) => c2.err # 0

\* C12: a member of a transaction has its callback called with an error
\* whenever a metadata write of the transaction has failed or its own data
\* write has, and with no error unless its own data write or some metadata
\* write has failed: the failure of another member's data write alone
\* gives it none
C12_ErrorOfMember ==
    \A c \in TxCallbacks :
        /\ (MetaFailed(c.gen) \/ OwnFailed(c)) => c.err # 0
        /\ c.err # 0 => (AnyMetaFailed \/ OwnFailed(c))

\* two members of one transaction have had their callbacks, one data write
\* having failed
C12_SiblingOfFailedWrite ==
    /\ crashed = ""
    /\ \E c1, c2 \in TxCallbacks :
          c1 # c2 /\ c1.gen = c2.gen /\ OwnFailed(c1)


(* ------------------------------------------------------------------ *)
(* A BAT write that fails                                               *)
(* ------------------------------------------------------------------ *)
BatWriteFailed == \E f \in hist.failed : f.op = VHD_OP_BAT_WRITE

\* C13: after a BAT write has completed with an error, a later write to the
\* same block starts a fresh allocation (new reservation, new ZERO_BM_WRITE)
\* without violating the assertion that a transaction joined is not closed
C13_NoAssertionAfterBatFailure ==
    BatWriteFailed => crashed # "assert:add_to_transaction:closed"


(* ------------------------------------------------------------------ *)
(* The outcome of a bitmap write                                        *)
(* ------------------------------------------------------------------ *)
\* the bitmap write of transaction g has failed
BitmapWriteFailed(g) ==
    \E f \in hist.failed : f.gen = g /\ f.op = VHD_OP_BITMAP_WRITE
\* the bitmap write of descriptor d completes in this step
BitmapWriteCompletes(d) ==
    /\ d \in Cached /\ WritePending(d)
    /\ \E x \in inflight \ inflight' : x.io = BmReq(d)
\* the members of the transaction of descriptor d
Members(d) ==
    { r \in DataReqs : req[r].cb /\ req[r].tx = d
                          /\ req[r].gen = bm[d].tx.gen }
\* the callbacks made in this step for members of the transaction of d
Signalled(d) == { c \in hist'.cbs \ hist.cbs : c.gen = bm[d].tx.gen }

\* C14: a bitmap write that fails leaves map as it was, and every member of
\* its transaction has its callback called with an error, at a time when
\* shadow is equal to map again and WRITE_PENDING is clear; a bitmap write
\* that succeeds makes map what shadow was, before any member's callback is
\* called.  Unless the transaction still waits for its BAT write, every
\* member has its callback called at once.
C14_BitmapWriteOutcome ==
    /\ [](\A c \in TxCallbacks : BitmapWriteFailed(c.gen) => c.err # 0)
    /\ [][\A d \in Descs :
            (BitmapWriteCompletes(d) /\ crashed' = "") =>
               LET fails == hist'.failed # hist.failed IN
               /\ bm'[d].map = IF fails THEN bm[d].map ELSE bm[d].shadow
               /\ \A c \in Signalled(d) :
                     c.synced /\ (fails => c.err # 0)
               /\ IF UpdatingBat(d)
                  THEN /\ Signalled(d) = {}
                       /\ bm'[d].shadow = bm'[d].map
                       /\ ~test_vhd_flag(bm'[d].status,
                                         VHD_FLAG_BM_WRITE_PENDING)
                  ELSE \A r \in Members(d) :
                          \E c \in Signalled(d) :
                             c.id = req[r].id /\ c.sec = req[r].lsec]_vars

\* a member of a transaction whose bitmap write failed has had its callback
C14_FailedBitmapWriteSignalled ==
    /\ crashed = ""
    /\ \E c \in TxCallbacks : BitmapWriteFailed(c.gen)


(* ------------------------------------------------------------------ *)
(* Writes that arrive while a block is being allocated                  *)
(* ------------------------------------------------------------------ *)
\* the data writes of the block being allocated that carry UPDATE_BAT
AllocatingWrites ==
    { r \in DataReqs :
        /\ req[r].cb /\ req[r].op = VHD_OP_DATA_WRITE
        /\ test_vhd_flag(req[r].flags, VHD_FLAG_REQ_UPDATE_BAT)
        /\ req[r].lsec \div spb = batst.pbw_blk }
\* the data write requests made in this step
NewWrites ==
    { r \in DataReqs :
        ~req[r].cb /\ req'[r].cb /\ req'[r].op = VHD_OP_DATA_WRITE }

\* C15 as stated: while the allocation of a block is pending, no second
\* write to the block is attached to the allocation
C15_SecondWriteTurnedAway ==
    bat_locked(state) => Cardinality(AllocatingWrites) <= 1

\* C15: while the allocation of block b is pending, a write to b is not
\* given BUSY: it makes no new reservation, its request carries UPDATE_BAT,
\* writes at pbw_offset and is a member of the transaction of b's bitmap, or
\* waits in that bitmap's queue when the transaction is closed
C15_SecondWriteJoins ==
    [][(bat_locked(state) /\ crashed' = "") =>
         /\ \A c \in hist'.cbs \ hist.cbs :
               (c.op = VHD_OP_DATA_WRITE /\ BlockOf(c) = batst.pbw_blk
                  /\ bat[batst.pbw_blk] = DD_BLK_UNUSED) => c.err # -EBUSY
         /\ \A r \in NewWrites :
               req'[r].lsec \div spb = batst.pbw_blk =>
                 LET d == get_bitmap(state, batst.pbw_blk) IN
                 /\ batst'.pbw_offset = batst.pbw_offset
                 /\ next_db' = next_db
                 /\ test_vhd_flag(req'[r].flags, VHD_FLAG_REQ_UPDATE_BAT)
                 /\ req'[r].io.off =
                       (batst.pbw_offset + bm_secs + (req'[r].lsec % spb))
                          * VHD_SECTOR_SIZE
                 /\ d # NULL
                 /\ IF bm[d].tx.closed
                    THEN test_vhd_flag(req'[r].flags, VHD_FLAG_REQ_QUEUED)
                    ELSE req'[r].tx = d /\ req'[r].gen = bm[d].tx.gen]_vars

\* two writes of the block being allocated are members of the transaction
\* of its bitmap
C15_TwoWritesInAllocation ==
    /\ crashed = "" /\ bat_locked(state)
    /\ \E r1, r2 \in AllocatingWrites :
          r1 # r2 /\ req[r1].tx # NULL /\ req[r1].tx = req[r2].tx


(* ------------------------------------------------------------------ *)
(* Writes turned away by the BAT lock                                   *)
(* ------------------------------------------------------------------ *)
\* the callbacks made with BUSY in this step
NewBusy == { c \in hist'.cbs \ hist.cbs : c.err = -EBUSY }
\* the requests filled in this step
NewRequests ==
    { r \in DataReqs : req'[r].cb /\ req'[r].id = hist'.ops /\ ~req[r].cb }
\* the cache slots holding a bitmap of block b, before and after the step
SlotsOf(b) == { i \in Descs : bitmap[i] # NULL /\ bm[bitmap[i]].blk = b }
SlotsOfNext(b) ==
    { i \in Descs : bitmap'[i] # NULL /\ bm'[bitmap'[i]].blk = b }

\* C16: a queue_write that reaches a sector of an unallocated block other
\* than the one the BAT lock is held for calls the callback once, with BUSY
\* over the whole remaining range; for that range no request is filled, no
\* bitmap is installed and the reservation stays; a write that starts in
\* such a block changes nothing at all
C16_BusyOverRemainder ==
    [][\A sector \in InSecs : \A n \in 1 .. MaxLen :
         QueueWriteAt(sector, n) =>
           /\ \A c \in NewBusy :
                 /\ NewBusy = {c}
                 /\ c.sec + c.n = sector + n
                 /\ c.id = hist'.ops
                 /\ \A r \in NewRequests : req'[r].lsec < c.sec
                 /\ SlotsOfNext(BlockOf(c)) \subseteq SlotsOf(BlockOf(c))
                 /\ bat'[BlockOf(c)] = DD_BLK_UNUSED
                 /\ test_vhd_flag(batst'.status, VHD_FLAG_BAT_LOCKED)
                 /\ batst'.pbw_blk # BlockOf(c)
                 /\ bat_locked(state) => (batst' = batst /\ next_db' = next_db)
           /\ (/\ bat_locked(state)
               /\ sector \div spb # batst.pbw_blk
               /\ bat[sector \div spb] = DD_BLK_UNUSED)
                 => /\ crashed' = ""
                    /\ \E c \in NewBusy : c.sec = sector /\ c.n = n
                    /\ UNCHANGED <<req, vreq_free, iocb_queue, bitmap, bm,
                                   bitmap_free, batst, next_db, bat>>]_vars

\* a write to an unallocated block has been turned away with BUSY while
\* the BAT lock was held for another block
C16_TurnedAway ==
    /\ crashed = ""
    /\ \E c \in hist.cbs :
          /\ c.err = -EBUSY /\ c.op = VHD_OP_DATA_WRITE /\ c.batlocked
          /\ c.gen = 0


(* ------------------------------------------------------------------ *)
(* Reads on a dynamic image                                             *)
(* ------------------------------------------------------------------ *)
\* the sectors of a span
Span(sec, n) == sec .. (sec + n - 1)
\* the sectors a write was ever accepted for: on the image at open, in a
\* request, or reported by a callback
Written ==
    { p[2] : p \in disk.data }
      \cup UNION { Span(req[r].lsec, req[r].nr_secs) :
                    r \in { q \in DataReqs :
                              req[q].cb /\ req[q].op = VHD_OP_DATA_WRITE } }
      \cup UNION { Span(c.sec, c.n) :
                    c \in { k \in hist.cbs : k.op = VHD_OP_DATA_WRITE } }
\* the callbacks made and the read requests filled in this step
NewCallbacks == hist'.cbs \ hist.cbs
NewReads ==
    { r \in DataReqs :
        /\ req'[r].cb /\ req'[r].id = hist'.ops /\ ~req[r].cb
        /\ req'[r].op = VHD_OP_DATA_READ }
\* sector x is answered NOT_ALLOCATED at once, with no request for it
NotAllocated(x) ==
    /\ \E c \in NewCallbacks :
          c.err = BLK_NOT_ALLOCATED /\ x \in Span(c.sec, c.n)
    /\ \A r \in NewReads : x \notin Span(req'[r].lsec, req'[r].nr_secs)
\* C17: on a dynamic image a read of a sector never written is answered
\* NOT_ALLOCATED at once and no I/O is issued for it, whatever else was
\* written in its block
C17_UnwrittenNotAllocated ==
    [][\A sector \in InSecs : \A n \in 1 .. MaxLen :
         (ftr_type = HD_TYPE_DYNAMIC /\ QueueReadAt(sector, n)
            /\ crashed' = "") =>
           \A x \in Span(sector, n) \ Written : NotAllocated(x)]_vars


(* ------------------------------------------------------------------ *)
(* Reading back what was written                                        *)
(* ------------------------------------------------------------------ *)
\* the callbacks that reported a write of sector x done
AcksOf(x) ==
    { c \in hist.cbs :
        c.op = VHD_OP_DATA_WRITE /\ c.err = 0 /\ x \in Span(c.sec, c.n) }
\* the data reads that have been handed to aio_read
IssuedReads ==
    { r \in DataReqs :
        req[r].cb /\ req[r].op = VHD_OP_DATA_READ /\ req[r].io.data = r }
\* the sector of the file where the data of logical sector x is
Place(x) ==
    IF ftr_type = HD_TYPE_FIXED THEN x
    ELSE bat[x \div spb] + bm_secs + (x % spb)

\* C18: a sector whose write was reported done is never answered
\* NOT_ALLOCATED afterwards, and a data read of it goes to the place in the
\* file where its data write put the data, (bat[blk] + BM + sec) * 512
C18_ReadWhereWritten ==
    crashed = "" =>
      /\ \A c \in hist.cbs :
            (c.op = VHD_OP_DATA_READ /\ c.err = BLK_NOT_ALLOCATED) =>
               \A x \in Span(c.sec, c.n) :
                  \A w \in AcksOf(x) : c.seq < w.seq
      /\ \A r \in IssuedReads :
            /\ req[r].io.off = Place(req[r].lsec) * VHD_SECTOR_SIZE
            /\ \A x \in Span(req[r].lsec, req[r].nr_secs) :
                  AcksOf(x) # {} => <<Place(x), x>> \in disk.data

\* a data read is issued for a sector whose write allocated its block and
\* was reported done
C18_ReadOfWrittenSector ==
    /\ crashed = "" /\ ftr_type # HD_TYPE_FIXED
    /\ \E r \in IssuedReads :
          \E w \in AcksOf(req[r].lsec) :
             test_vhd_flag(w.flags, VHD_FLAG_REQ_UPDATE_BAT)

(* ------------------------------------------------------------------ *)
(* Eviction from the bitmap cache                                       *)
(* ------------------------------------------------------------------ *)
\* the step is a call of the host
HostCall == hist'.ops # hist.ops
\* the bitmaps the step removes from the cache: cached before it, their
\* block not cached after it
Evicted == { d \in Cached : get_bitmap(state', bm[d].blk) = NULL }
Unlocked == { d \in Cached : ~bitmap_locked(bm[d]) }

\* C19: the bitmap a call of the host evicts is not LOCKED, has the lowest
\* sequence number of the cached bitmaps that are not LOCKED, and has no
\* pending read, no pending write, no live transaction and empty lists
C19_EvictsLeastRecentUnlocked ==
    [][HostCall =>
         \A d \in Evicted :
            /\ Len(bitmap_free) = 0
            /\ d \in Unlocked
            /\ \A e \in Unlocked : bm[d].seqno <= bm[e].seqno
            /\ ~bitmap_in_use(bm[d])
            /\ crashed' = ""]_vars

\* two blocks have been read through their bitmaps; the bitmap of the one
\* read first has since been evicted for a third block, the other is cached
C19_OlderOfTwoEvicted ==
    /\ crashed = "" /\ hist.fails = 0
    /\ \E c1, c2 \in hist.cbs :
          /\ c1.err = BLK_NOT_ALLOCATED /\ c2.err = BLK_NOT_ALLOCATED
          /\ c1.seq < c2.seq
          /\ get_bitmap(state, BlockOf(c1)) = NULL
          /\ get_bitmap(state, BlockOf(c2)) # NULL
          /\ \E b \in Blocks \ {BlockOf(c1), BlockOf(c2)} :
                get_bitmap(state, b) # NULL

\* C20: a call of the host for a block whose bitmap is not cached is turned
\* away with BUSY only when the free list is empty and every cached bitmap
\* is LOCKED
C20_BusyOnlyWhenAllPinned ==
    [][\A blk \in Blocks :
         ( /\ CacheReadAt(blk) \/ CacheWriteAt(blk)
           /\ get_bitmap(state, blk) = NULL
           /\ NewBusy # {} )
         => (Len(bitmap_free) = 0 /\ Unlocked = {})]_vars

(* ------------------------------------------------------------------ *)
(* Pinning of the cached bitmaps                                        *)
(* ------------------------------------------------------------------ *)
\* what pins bitmap b: a pending read or write, a transaction that updates
\* the table or has members, a request waiting or queued
Busy(b) ==
    \/ test_vhd_flag(b.status, VHD_FLAG_BM_READ_PENDING)
    \/ test_vhd_flag(b.status, VHD_FLAG_BM_WRITE_PENDING)
    \/ test_vhd_flag(b.tx.status, VHD_FLAG_TX_UPDATE_BAT)
    \/ b.tx.requests.head # NULL
    \/ b.waiting.head # NULL
    \/ b.queue.head # NULL
Locked(b) == test_vhd_flag(b.status, VHD_FLAG_BM_LOCKED)

\* C21: a cached bitmap with a pending read or write, a transaction that
\* updates the table or has members, or a non-empty waiting or queue list
\* is LOCKED, and a step that clears LOCKED leaves the bitmap with none of
\* these
C21_BusyBitmapLocked ==
    /\ [](crashed = "" => \A d \in Cached : Busy(bm[d]) => Locked(bm[d]))
    /\ [][\A d \in Descs :
            (Locked(bm[d]) /\ ~Locked(bm'[d]) /\ crashed' = "")
                => ~Busy(bm'[d])]_vars

\* a bitmap whose transaction has signalled a write is cached and no longer
\* LOCKED
C21_UnlockedAfterTransaction ==
    /\ crashed = "" /\ ftr_type = HD_TYPE_DIFF
    /\ \E d \in Cached :
          /\ ~Locked(bm[d])
          /\ \E c \in TxCallbacks : BlockOf(c) = bm[d].blk

(* ------------------------------------------------------------------ *)
(* Requests that wait for a bitmap read                                 *)
(* ------------------------------------------------------------------ *)
\* the requests linked from r by next, in order
RECURSIVE Chain(_, _, _)
Chain(rq, r, fuel) ==
    IF r = NULL \/ fuel = 0 THEN <<>>
    ELSE <<r>> \o Chain(rq, rq[r].next, fuel - 1)
\* the waiting list of descriptor d, before and after the step
WaitingOf(d) == Chain(req, bm[d].waiting.head, Cardinality(ReqIds))
WaitingOfNext(d) == Chain(req', bm'[d].waiting.head, Cardinality(ReqIds))
\* the bitmap reads of block b that the step hands to aio_read
NewBitmapReads(b) ==
    { i \in (Len(iocb_queue) + 1) .. Len(iocb_queue') :
        /\ req'[iocb_queue'[i]].op = VHD_OP_BITMAP_READ
        /\ req'[iocb_queue'[i]].lsec = b * spb }
\* the step's call is turned away at sector
TurnedAwayAt(sector) ==
    \E c \in NewCallbacks : c.err < 0 /\ c.sec = sector
\* the request the step fills for the span that starts at sector
NewRequestAt(sector) ==
    { r \in NewRequests : req'[r].lsec = sector }
\* the bitmap read of descriptor d completes with success in this step
BitmapReadCompletes(d) ==
    /\ d \in Cached /\ ReadPending(d)
    /\ \E x \in inflight \ inflight' : x.io = BmReq(d)
    /\ hist'.fails = hist.fails
\* what the step does for request r that waited: the callbacks it makes
\* and the data requests it fills for r's caller within r's span
AnswersOf(r) ==
    { c \in NewCallbacks :
        c.id = req[r].id /\ c.sec \in Span(req[r].lsec, req[r].nr_secs) }
ReissuesOf(r) ==
    { q \in DataReqs :
        /\ req'[q].cb /\ req'[q].id = req[r].id /\ req'[q].op = req[r].op
        /\ req'[q].lsec \in Span(req[r].lsec, req[r].nr_secs)
        /\ req'[q].io.data = q }
\* the sectors of r's span that the step answers or reissues, counted once
\* for every answer and every reissue
TimesServed(r, x) ==
    Cardinality({ c \in AnswersOf(r) : x \in Span(c.sec, c.n) })
      + Cardinality({ q \in ReissuesOf(r) :
                        x \in Span(req'[q].lsec, req'[q].nr_secs) })
\* request q is on the waiting list of some bitmap after the step
OnAnyWaitingList(q) ==
    \E e \in Descs : \E i \in 1 .. Len(WaitingOfNext(e)) :
        WaitingOfNext(e)[i] = q

\* C22: on a differencing image an accepted request to an allocated block
\* whose bitmap is not cached issues one bitmap read and waits on the
\* bitmap's waiting list; an accepted request that arrives while the read is
\* pending joins the tail of the list and issues no bitmap read; when the
\* read completes with success READ_PENDING is cleared, the waiting list is
\* empty, every sector of every waiting request is answered or reissued
\* exactly once, the answers in the order of arrival, and no request is on
\* a waiting list that was not before
C22_WaitForBitmapRead ==
    [][/\ \A sector \in InSecs : \A n \in 1 .. MaxLen :
            LET b == sector \div spb
                d == get_bitmap(state, b)
                e == get_bitmap(state', b)
            IN
            ( /\ QueueReadAt(sector, n) \/ QueueWriteAt(sector, n)
              /\ ftr_type = HD_TYPE_DIFF /\ bat[b] # DD_BLK_UNUSED
              /\ crashed' = "" /\ ~TurnedAwayAt(sector) )
            =>
            /\ d = NULL =>
                 /\ Cardinality(NewBitmapReads(b)) = 1
                 /\ e # NULL
                 /\ test_vhd_flag(bm'[e].status, VHD_FLAG_BM_READ_PENDING)
                 /\ Len(WaitingOfNext(e)) = 1
                 /\ WaitingOfNext(e)[1] \in NewRequestAt(sector)
            /\ (d # NULL /\ ReadPending(d)) =>
                 /\ NewBitmapReads(b) = {}
                 /\ e = d
                 /\ \E r \in NewRequestAt(sector) :
                       WaitingOfNext(d) = Append(WaitingOf(d), r)
       /\ \A d \in Descs :
            (BitmapReadCompletes(d) /\ crashed' = "") =>
               /\ bm'[d].waiting = EmptyList
               /\ ~test_vhd_flag(bm'[d].status, VHD_FLAG_BM_READ_PENDING)
               /\ \A i \in 1 .. Len(WaitingOf(d)) :
                     LET r == WaitingOf(d)[i] IN
                     \A x \in Span(req[r].lsec, req[r].nr_secs) :
                        TimesServed(r, x) = 1
               /\ \A i, j \in 1 .. Len(WaitingOf(d)) :
                     i < j =>
                        \A c1 \in AnswersOf(WaitingOf(d)[i]) :
                           \A c2 \in AnswersOf(WaitingOf(d)[j]) :
                              c1.seq < c2.seq
               /\ \A q \in DataReqs :
                     OnAnyWaitingList(q) =>
                        \E f \in Descs : \E i \in 1 .. Len(WaitingOf(f)) :
                           WaitingOf(f)[i] = q /\ f # d]_vars

\* two requests wait, in the order of their arrival, for a bitmap read that
\* the first of them caused and that has been submitted
C22_TwoWaiting ==
    /\ crashed = "" /\ ftr_type = HD_TYPE_DIFF
    /\ \E d \in Cached :
          /\ ReadPending(d)
          /\ \E x \in inflight : x.io = BmReq(d)
          /\ Len(WaitingOf(d)) = 2
          /\ req[WaitingOf(d)[1]].id = 1 /\ req[WaitingOf(d)[2]].id = 2

(* ------------------------------------------------------------------ *)
(* A batch that io_submit does not take whole                           *)
(* ------------------------------------------------------------------ *)
\* C23: when io_submit rejects the batch or takes only a part of it, the
\* requests it did not take are finished with the error and no assertion
\* fails; the vector of control blocks is empty afterwards
C23_FailedSubmitNoAssertion ==
    [][SubmitPartial => (crashed' = "" /\ iocb_queue' = <<>>)]_vars

(* ------------------------------------------------------------------ *)
(* Transactions that are closed                                         *)
(* ------------------------------------------------------------------ *)
\* C24: no request is added to a transaction that is closed: the
\* ASSERT(!tx->closed) of add_to_transaction never fails, for a data write
\* or for the ZERO_BM_WRITE of a new reservation
C24_NeverAddedToClosed ==
    crashed # "assert:add_to_transaction:closed"

(* ------------------------------------------------------------------ *)
(* The spans of a request                                               *)
(* ------------------------------------------------------------------ *)
\* the spans the step's call makes, each <<first sector, length>>: those it
\* answers at once and those it fills a request for
AnsweredSpans ==
    { <<c.sec, c.n>> : c \in { k \in NewCallbacks : k.err >= 0 } }
RequestSpans == { <<req'[r].lsec, req'[r].nr_secs>> : r \in NewRequests }
\* how many of the step's spans hold sector x
TimesCovered(x) ==
    Cardinality({ c \in NewCallbacks : c.err >= 0 /\ x \in Span(c.sec, c.n) })
      + Cardinality({ r \in NewRequests :
                        x \in Span(req'[r].lsec, req'[r].nr_secs) })

\* C25: on a dynamic or differencing image every span that queue_read or
\* queue_write makes has at least one sector and lies in one block, no
\* sector is in two spans, and unless the call ends with an error callback
\* every sector of the range is in exactly one span
C25_SpansCoverRange ==
    [][\A sector \in InSecs : \A n \in 1 .. MaxLen :
         ( /\ QueueReadAt(sector, n) \/ QueueWriteAt(sector, n)
           /\ ftr_type # HD_TYPE_FIXED /\ crashed' = "" )
         =>
         /\ \A p \in AnsweredSpans \cup RequestSpans :
               /\ p[2] >= 1
               /\ p[1] \div spb = (p[1] + p[2] - 1) \div spb
               /\ Span(p[1], p[2]) \subseteq Span(sector, n)
         /\ \A x \in Span(sector, n) : TimesCovered(x) <= 1
         /\ (\A c \in NewCallbacks : c.err >= 0)
               => \A x \in Span(sector, n) : TimesCovered(x) = 1]_vars

\* a call for two sectors has been split into two spans, answered or in
\* requests, and no callback reported an error
C25_TwoSpans ==
    /\ crashed = "" /\ ftr_type # HD_TYPE_FIXED /\ hist.ops = 1
    /\ \A c \in hist.cbs : c.err >= 0
    /\ Cardinality({ c \in hist.cbs : c.n = 1 })
         + Cardinality({ r \in DataReqs : req[r].cb /\ req[r].nr_secs = 1 })
       = 2

(* ------------------------------------------------------------------ *)
(* Fixed disks                                                          *)
(* ------------------------------------------------------------------ *)
\* the table, the reservation, the bitmaps and their cache stay as they are
MetadataUnchanged ==
    UNCHANGED <<bat, next_db, batst, bm, bitmap, bitmap_free, bm_lru>>
\* the control blocks appended to the vector in this step
NewIocbs == SubSeq(iocb_queue', Len(iocb_queue) + 1, Len(iocb_queue'))

\* C26: on a fixed disk a call of queue_read or queue_write that is not
\* turned away appends one control block, for n * 512 bytes at byte
\* sector * 512, and calls no callback; the completion of that I/O calls the
\* callback once, for the whole request and with the error of the I/O; no
\* step changes the table, a bitmap or the cache, no request is in a
\* transaction, and no request has two callbacks
C26_FixedDiskDirect ==
    /\ [](ftr_type = HD_TYPE_FIXED =>
            /\ \A c1, c2 \in hist.cbs : c1.id = c2.id => c1 = c2
            /\ \A r \in DataReqs : req[r].tx = NULL
            /\ crashed = "")
    /\ [][ftr_type = HD_TYPE_FIXED =>
            /\ MetadataUnchanged
            /\ \A sector \in InSecs : \A n \in 1 .. MaxLen :
                 ( /\ QueueReadAt(sector, n) \/ QueueWriteAt(sector, n)
                   /\ ~TurnedAwayAt(sector) )
                 =>
                 /\ NewCallbacks = {}
                 /\ Len(NewIocbs) = 1
                 /\ LET q == req'[NewIocbs[1]] IN
                    /\ q.id = hist'.ops /\ q.lsec = sector /\ q.nr_secs = n
                    /\ q.io.off = sector * VHD_SECTOR_SIZE
                    /\ q.io.n = n * VHD_SECTOR_SIZE
                    /\ q.io.w = QueueWriteAt(sector, n)
            /\ \A x \in inflight \ inflight' :
                 /\ Cardinality(NewCallbacks) = 1
                 /\ \A c \in NewCallbacks :
                      /\ c.id = req[x.io].id
                      /\ c.sec = req[x.io].lsec /\ c.n = req[x.io].nr_secs
                      /\ c.err = IF hist'.fails = hist.fails THEN 0 ELSE -EIO
            /\ (inflight \subseteq inflight' /\ ~HostCall)
                  => NewCallbacks = {}]_vars

\* on a fixed disk a read and a write have had their callbacks, one told of
\* the error of its I/O
C26_FixedBothAnswered ==
    /\ crashed = "" /\ ftr_type = HD_TYPE_FIXED
    /\ \E c1, c2 \in hist.cbs :
          /\ c1.op = VHD_OP_DATA_READ /\ c2.op = VHD_OP_DATA_WRITE
          /\ c1.err = -EIO /\ c2.err = 0

(* ------------------------------------------------------------------ *)
(* The table in memory and next_db                                      *)
(* ------------------------------------------------------------------ *)
\* the BAT write completes with success in this step
BatWriteSucceeds ==
    /\ \E x \in inflight \ inflight' :
          x.io = BAT_REQ /\ req[BAT_REQ].op = VHD_OP_BAT_WRITE
    /\ hist'.failed = hist.failed

\* C27: an entry of the table in memory changes only in the step in which
\* the BAT write completes with success, and then it is the entry of
\* pbw_blk, which goes from unused to pbw_offset
C27_BatEntryWrittenOnce ==
    [][\A b \in Blocks :
         bat'[b] # bat[b] =>
            /\ BatWriteSucceeds
            /\ bat[b] = DD_BLK_UNUSED
            /\ b = batst.pbw_blk
            /\ bat'[b] = batst.pbw_offset]_vars

\* a block that no image has allocated at open is allocated, its entry in
\* memory the one written to the file
C27_BlockAllocatedInRun ==
    /\ crashed = ""
    /\ \E b \in Blocks \ {0} :
          bat[b] # DD_BLK_UNUSED /\ disk.bat[b] = bat[b]

\* C28: next_db changes only in the step in which the BAT write completes
\* with success, and then it grows; on a disk that has a table the data of
\* the block placed at next_db starts on a page boundary
C28_NextDbAligned ==
    /\ [](ftr_type # HD_TYPE_FIXED => (next_db + bm_secs) % spp = 0)
    /\ [][next_db' # next_db =>
            (BatWriteSucceeds /\ next_db' > next_db)]_vars

\* next_db lies beyond where the images opened leave it: a block has been
\* allocated since
C28_NextDbMoved ==
    /\ crashed = ""
    /\ next_db > NextDbAfter(FirstDb)
    /\ \E b \in Blocks :
          bat[b] # DD_BLK_UNUSED /\ NextDbAfter(bat[b]) = next_db

(* ------------------------------------------------------------------ *)
(* Requests whose I/O is in flight                                      *)
(* ------------------------------------------------------------------ *)
\* the slots of the pool that are free
FreeSlots == { vreq_free[i] : i \in 1 .. Len(vreq_free) }

\* C29: a data request whose I/O is in flight is still allocated and is
\* still the request that was submitted: its slot is not in the pool and
\* has not been filled again, and its callback has not been called
C29_InFlightStillAllocated ==
    \A x \in inflight :
        x.io \in DataReqs =>
           /\ x.io \notin FreeSlots
           /\ req[x.io].io.gid = x.gid
           /\ req[x.io].op = x.kind
           /\ \A c \in hist.cbs : <<c.id, c.sec>> # x.gid

(* ------------------------------------------------------------------ *)
(* A bitmap read that fails                                             *)
(* ------------------------------------------------------------------ *)
\* the bitmap read of descriptor d completes with an error in this step
BitmapReadFails(d) ==
    /\ d \in Cached /\ ReadPending(d)
    /\ \E x \in inflight \ inflight' : x.io = BmReq(d)
    /\ hist'.fails # hist.fails

\* C30: when a bitmap read fails no assertion fails, every request that
\* waited for the bitmap has its callback called with an error, and the
\* bitmap is taken out of the cache and put on the free list
C30_FailedBitmapRead ==
    [][\A d \in Descs :
         BitmapReadFails(d) =>
            /\ crashed' = ""
            /\ \A i \in 1 .. Len(WaitingOf(d)) :
                  LET r == WaitingOf(d)[i] IN
                  \E c \in NewCallbacks :
                     c.id = req[r].id /\ c.sec = req[r].lsec /\ c.err < 0
            /\ \A i \in Descs : bitmap'[i] # d
            /\ \E i \in 1 .. Len(bitmap_free') : bitmap_free'[i] = d]_vars

(* ------------------------------------------------------------------ *)
(* Who signals an allocating transaction                                *)
(* ------------------------------------------------------------------ *)
\* the BAT write completes in this step
BatWriteCompletes ==
    \E x \in inflight \ inflight' :
       x.io = BAT_REQ /\ req[BAT_REQ].op = VHD_OP_BAT_WRITE

\* every member of the transaction of d has completed its I/O and no bitmap
\* write of d is outstanding
MembersDone(d) ==
    /\ \A r \in Members(d) :
          test_vhd_flag(req[r].flags, VHD_FLAG_REQ_FINISHED)
    /\ ~WritePending(d)

\* C31: the members of an allocating transaction are signalled by the later
\* of the BAT write and the last member or bitmap write: a BAT write that
\* completes after them signals every member in that step, and a BAT write
\* that completes before them signals none and clears TX_UPDATE_BAT
C31_BatWriteFinisherSignals ==
    [][\A d \in Descs :
         (/\ BatWriteCompletes
          /\ d = get_bitmap(state, batst.pbw_blk)
          /\ crashed' = "") =>
            IF MembersDone(d)
            THEN \A r \in Members(d) :
                    \E c \in Signalled(d) :
                       c.id = req[r].id /\ c.sec = req[r].lsec
            ELSE /\ Signalled(d) = {}
                 /\ ~test_vhd_flag(bm'[d].tx.status,
                                   VHD_FLAG_TX_UPDATE_BAT)]_vars

(* ------------------------------------------------------------------ *)
(* Promotion of the queue                                               *)
(* ------------------------------------------------------------------ *)
\* the queue of descriptor d, in order
QueueOf(d) == Chain(req, bm[d].queue.head, Cardinality(ReqIds))

\* the transaction of d finishes in this step with writes on d's queue
PromotionOf(d) ==
    /\ d \in Cached
    /\ bm[d].queue.head # NULL
    /\ bm'[d].tx.gen > bm[d].tx.gen
    /\ crashed' = ""

\* the step calls r's callback with error err
SignalledWith(r, err) ==
    \E c \in NewCallbacks :
       c.id = req[r].id /\ c.sec = req[r].lsec /\ c.err = err

\* r is a member of the transaction that the step starts for d: it is on
\* that transaction, or that transaction has finished in the same step
JoinsNext(d, r) ==
    \/ /\ req'[r].cb /\ req'[r].id = req[r].id
       /\ req'[r].tx = d /\ req'[r].gen = hist.txn + 1
       /\ ~test_vhd_flag(req'[r].flags, VHD_FLAG_REQ_QUEUED)
    \/ \E c \in NewCallbacks :
          /\ c.id = req[r].id /\ c.sec = req[r].lsec
          /\ c.gen = hist.txn + 1
          /\ ~test_vhd_flag(c.flags, VHD_FLAG_REQ_QUEUED)

\* what the promotion of d's queue does with the writes on it
Promoted(d) ==
    LET Q == QueueOf(d)
        good == { i \in 1 .. Len(Q) : req[Q[i]].error = 0 }
        fin == { i \in good :
                   test_vhd_flag(req[Q[i]].flags, VHD_FLAG_REQ_FINISHED) }
    IN
    /\ \A i \in 1 .. Len(Q) :
          IF i \in good THEN JoinsNext(d, Q[i])
          ELSE SignalledWith(Q[i], req[Q[i]].error)
    /\ IF bm'[d].tx.gen = hist.txn + 1
       THEN /\ bm'[d].tx.started = Cardinality(good)
            /\ bm'[d].tx.finished = Cardinality(fin)
            /\ ftr_type = HD_TYPE_DIFF =>
                  \A i \in fin :
                     \A x \in Span(req[Q[i]].lsec, req[Q[i]].nr_secs) :
                        test_bit(x % spb, bm'[d].shadow)
            /\ bm'[d].tx.closed <=> (fin = good)
       ELSE fin = good

BitmapPlace(b) ==
    IF bat[b] # DD_BLK_UNUSED THEN bat[b]
    ELSE IF bat_locked(state) /\ batst.pbw_blk = b THEN batst.pbw_offset
    ELSE NULL

\* a bitmap read, bitmap write or zero-bitmap write of d's block is queued
\* or in flight
BitmapIoPending(d) ==
    \/ ReadPending(d) \/ WritePending(d)
    \/ Outstanding(BmReq(d)) > 0
    \/ /\ Outstanding(ZERO_REQ) > 0
       /\ req[ZERO_REQ].lsec \div spb = bm[d].blk

\* C33: a cached bitmap that has no bitmap read, bitmap write or
\* zero-bitmap write outstanding has map equal to the bitmap that is on disk
\* for its block, also when an allocation is retried after a failed BAT write
C33_MapMirrorsDisk ==
    crashed = "" =>
       \A d \in Cached :
          (BitmapPlace(bm[d].blk) # NULL /\ ~BitmapIoPending(d)) =>
             bm[d].map = DiskBits(disk, BitmapPlace(bm[d].blk))

(* ------------------------------------------------------------------ *)
(* Classification by map on a differencing image                        *)
(* ------------------------------------------------------------------ *)
\* the sectors whose bit is set in an image as it is opened
ImageBits == { (p[1] - FirstDb) + p[2] : p \in UNION { i.bm : i \in Images } }

\* the router looks sector x up in the map of a cached bitmap
ClassifiedByMap(x) ==
    /\ ftr_type = HD_TYPE_DIFF
    /\ bat[x \div spb] # DD_BLK_UNUSED
    /\ get_bitmap(state, x \div spb) # NULL
    /\ bitmap_valid(bm[get_bitmap(state, x \div spb)])

\* the bit of sector x in map, and in shadow
InMap(x) == test_bit(x % spb, bm[get_bitmap(state, x \div spb)].map)
InShadow(x) == test_bit(x % spb, bm[get_bitmap(state, x \div spb)].shadow)

\* the step's call has no span turned away with an error
Accepted == \A c \in NewCallbacks : c.err >= 0

\* the write requests the step fills that cover sector x
NewWritesOf(x) ==
    { r \in NewRequests :
        /\ req'[r].op = VHD_OP_DATA_WRITE
        /\ x \in Span(req'[r].lsec, req'[r].nr_secs) }

\* C34: on a differencing image a sector whose bit is clear in map, set in
\* shadow or not, is answered NOT_ALLOCATED to a read and written with
\* UPDATE_BITMAP by a write; a bit of map that the router consults is set
\* only if the image had it or a write of the sector has had its callback
C34_ClassifiedByMap ==
    /\ [](crashed = "" =>
            \A x \in 0 .. (HostSize - 1) :
               (ClassifiedByMap(x) /\ InMap(x) /\ x \notin ImageBits) =>
                  \E c \in hist.cbs :
                     c.op = VHD_OP_DATA_WRITE /\ x \in Span(c.sec, c.n))
    /\ [][\A sector \in InSecs : \A n \in 1 .. MaxLen :
            \A x \in Span(sector, n) :
               (ClassifiedByMap(x) /\ ~InMap(x) /\ crashed' = ""
                  /\ Accepted) =>
                 /\ QueueReadAt(sector, n) => NotAllocated(x)
                 /\ QueueWriteAt(sector, n) =>
                       /\ NewWritesOf(x) # {}
                       /\ \A r \in NewWritesOf(x) :
                             test_vhd_flag(req'[r].flags,
                                           VHD_FLAG_REQ_UPDATE_BITMAP)]_vars

\* a read has been answered NOT_ALLOCATED for a sector whose write was
\* accepted before it and still waits for its transaction: the data is
\* written, the bit is set in shadow and clear in map
C34_ReadOfUncommittedSector ==
    /\ crashed = "" /\ ftr_type = HD_TYPE_DIFF
    /\ \E r \in DataReqs : \E c \in hist.cbs :
          /\ req[r].cb /\ req[r].op = VHD_OP_DATA_WRITE
          /\ test_vhd_flag(req[r].flags, VHD_FLAG_REQ_FINISHED)
          /\ c.op = VHD_OP_DATA_READ /\ c.err = BLK_NOT_ALLOCATED
          /\ c.sec = req[r].lsec /\ c.id > req[r].id
          /\ ClassifiedByMap(c.sec) /\ InShadow(c.sec) /\ ~InMap(c.sec)

(* ------------------------------------------------------------------ *)
(* Dynamic images                                                       *)
(* ------------------------------------------------------------------ *)
BitmapOps == {VHD_OP_BITMAP_READ, VHD_OP_BITMAP_WRITE}

\* no bitmap read and no bitmap write is queued or in flight
NoBitmapIo ==
    /\ \A x \in inflight : x.kind \notin BitmapOps
    /\ \A i \in 1 .. Len(iocb_queue) : req[iocb_queue[i]].op \notin BitmapOps
    /\ \A d \in Descs : ~ReadPending(d) /\ ~WritePending(d)

\* the transaction of d is live, all its members have completed and it
\* waits for no BAT write
TransactionDue(d) ==
    /\ test_vhd_flag(bm[d].tx.status, VHD_FLAG_TX_LIVE)
    /\ transaction_completed(bm[d].tx)
    /\ ~UpdatingBat(d)

\* C35: on a dynamic image no bitmap read and no bitmap write is issued,
\* and a transaction is finished, with no bitmap write, by the step in
\* which the last of its members and its BAT write completes
C35_DynamicNoBitmapIo ==
    (ftr_type = HD_TYPE_DYNAMIC /\ crashed = "") =>
       /\ NoBitmapIo
       /\ \A d \in Cached : ~TransactionDue(d)

(* ------------------------------------------------------------------ *)
(* A call turned away with OUT_OF_MEMORY                                *)
(* ------------------------------------------------------------------ *)
\* the step's call is answered -ENOMEM
OutOfMemory == \E c \in NewCallbacks : c.err = -ENOMEM

\* C36: a call answered OUT_OF_MEMORY leaves nothing behind: no BAT
\* reservation, no ZERO_BM_WRITE or bitmap read in the submission vector,
\* no bitmap installed and none newly LOCKED
C36_OutOfMemoryLeavesNothing ==
    [][\A blk \in Blocks :
         ((CacheReadAt(blk) \/ CacheWriteAt(blk)) /\ OutOfMemory) =>
            /\ crashed' = ""
            /\ batst' = batst /\ next_db' = next_db
            /\ iocb_queue' = iocb_queue
            /\ bitmap' = bitmap /\ bitmap_free' = bitmap_free
            /\ \A d \in Descs :
                  bitmap_locked(bm'[d]) => bitmap_locked(bm[d])]_vars

(* ------------------------------------------------------------------ *)
(* Release of the BAT lock                                              *)
(* ------------------------------------------------------------------ *)
\* the ZERO_BM_WRITE completes with an error in this step
ZeroWriteFails ==
    /\ \E x \in inflight \ inflight' :
          x.io = ZERO_REQ /\ req[ZERO_REQ].op = VHD_OP_ZERO_BM_WRITE
    /\ hist'.failed # hist.failed

\* the BAT state as init_bat leaves it
BatReset(st, rq) ==
    /\ st.status = {} /\ st.pbw_blk = 0 /\ st.pbw_offset = 0
    /\ rq[BAT_REQ].tx = NULL

\* C37: while the BAT lock is held the ZERO_BM_WRITE or the BAT write of
\* the reservation is outstanding; the lock is released by the step in
\* which the ZERO_BM_WRITE fails and by the step in which the BAT write
\* completes, whatever its outcome; whenever the lock is free pbw_blk,
\* pbw_offset, WRITE_STARTED and bat.req.tx are reset
C37_BatLockReleased ==
    /\ [](crashed = "" =>
            IF bat_locked(state)
            THEN Outstanding(ZERO_REQ) + Outstanding(BAT_REQ) > 0
            ELSE BatReset(batst, req))
    /\ [][(ZeroWriteFails \/ BatWriteCompletes) =>
            /\ crashed' = ""
            /\ ~bat_locked(state')
            /\ BatReset(batst', req')]_vars

(* ------------------------------------------------------------------ *)
(* Runs without failures                                                *)
(* ------------------------------------------------------------------ *)
\* no call has been turned away for want of a request or of a bitmap: an
\* answer of BUSY is owed to the BAT lock
NoExhaustion ==
    \A c \in hist.cbs :
       /\ c.err # -ENOMEM
       /\ c.err = -EBUSY => (c.batlocked /\ c.op = VHD_OP_DATA_WRITE)

\* C38: as long as every I/O has completed with success, no submission has
\* failed and neither the request pool nor the bitmap cache has been
\* exhausted, no assertion has failed and no other fault has stopped the
\* driver
C38_NoAssertionWithoutFailure ==
    (hist.fails = 0 /\ NoExhaustion) => crashed = ""

\* an allocating write and a read after it have completed with success in
\* a run without failure, and nothing is left pending
C38_AllocationAndReadDone ==
    /\ crashed = "" /\ hist.fails = 0 /\ NoExhaustion /\ Quiescent
    /\ ftr_type = HD_TYPE_DIFF
    /\ \E c1, c2 \in hist.cbs :
          /\ c1.op = VHD_OP_DATA_WRITE /\ c1.err = 0
          /\ test_vhd_flag(c1.flags, VHD_FLAG_REQ_UPDATE_BAT)
          /\ c2.op = VHD_OP_DATA_READ /\ c2.err = 0 /\ c2.seq > c1.seq

(* ------------------------------------------------------------------ *)
(* Structure of the bitmap cache                                        *)
(* ------------------------------------------------------------------ *)
\* the slots that hold a bitmap, and the number of times descriptor d is
\* held by a slot and by the free list
Occupied == { i \in Descs : bitmap[i] # NULL }
TimesCached(d) == Cardinality({ i \in Descs : bitmap[i] = d })
TimesFree(d) ==
    Cardinality({ i \in 1 .. Len(bitmap_free) : bitmap_free[i] = d })

\* C39: no two occupied slots hold the same block, every descriptor is in
\* exactly one slot or once on the free list and not both, and the occupied
\* slots and the free descriptors together are as many as the cache holds
C39_CacheStructure ==
    /\ \A i, j \in Occupied :
          bm[bitmap[i]].blk = bm[bitmap[j]].blk => i = j
    /\ \A d \in Descs : TimesCached(d) + TimesFree(d) = 1
    /\ Cardinality(Occupied) + Len(bitmap_free) = VHD_CACHE_SIZE

\* the cache is full and a block that was read through its bitmap is no
\* longer cached: its bitmap was evicted for another block
C39_FullAfterEviction ==
    /\ crashed = "" /\ Len(bitmap_free) = 0
    /\ Cardinality(Occupied) = VHD_CACHE_SIZE
    /\ \E c \in hist.cbs :
          c.err = BLK_NOT_ALLOCATED /\ get_bitmap(state, BlockOf(c)) = NULL

(* ------------------------------------------------------------------ *)
(* Sectors beyond the table                                             *)
(* ------------------------------------------------------------------ *)
\* the call was answered once, with INVALID_ARGUMENT over sector .. sector+n-1,
\* and nothing was scheduled for it
Rejected(sector, n, op) ==
    /\ crashed' = ""
    /\ \E c \in NewCallbacks :
          /\ NewCallbacks = {c}
          /\ c.err = -EINVAL /\ c.sec = sector /\ c.n = n /\ c.op = op
    /\ UNCHANGED <<req, vreq_free, iocb_queue, inflight, bm, bitmap,
                   bitmap_free, batst, next_db, bat>>

\* C40: a queue_read or queue_write that starts in a block whose index is
\* max_bat_size or more is answered with INVALID_ARGUMENT over its whole
\* range and schedules nothing, and no step changes the memory after the
\* table
C40_BeyondTableRejected ==
    [][/\ \A sector \in RangeSecs : \A n \in 1 .. MaxLen :
            sector \div spb >= max_bat_size =>
               /\ RangeReadAt(sector, n)
                     => Rejected(sector, n, VHD_OP_DATA_READ)
               /\ RangeWriteAt(sector, n)
                     => Rejected(sector, n, VHD_OP_DATA_WRITE)
       /\ past' = past]_vars

====
